---------------------------- MODULE Spec2Model ----------------------------
(***************************************************************************)
(* Position aggregation and classification of the hedge dashboard:         *)
(* lib/chartUtils (getExpiryBucket, aggregateByExpiryBucket, getAssetType, *)
(* aggregateByAssetType), the spreadAggregates memo of AggTable and the    *)
(* filteredData memo of App.                                               *)
(*                                                                         *)
(* Conventions.  A JavaScript string is a sequence of one-character        *)
(* strings; null/undefined of a string field is the sentinel NullStr.  An  *)
(* optional number or boolean is a sequence of length at most one: <<>> is *)
(* null/undefined, <<v>> is the value v.  Money is integral (whole         *)
(* dollars), so sums are exact as they are in doubles below 2^53.          *)
(* Instants are counted in ticks of local wall-clock time, TicksPerDay to  *)
(* the day.                                                                *)
(***************************************************************************)
EXTENDS Integers, Sequences, FiniteSets, Bags, TLC

VARIABLES
    now,               \* the wall clock read by dayjs()
    positions,         \* the AggRow[] handed to chartUtils / AggTable (prop)
    args,              \* the arguments of a call that takes no row
    call,              \* <<function last invoked, index of its row, clock it read>>
    result,            \* what that invocation returned
    resultRef,         \* the object that invocation returned (0: no object)
    allocated,         \* the number of objects allocated by the invocations
    latest,            \* per aggregator: <<clock, output>> of its last invocation
    earlier,           \* per aggregator: the same of the invocation before
    aggData,           \* App state: the loaded rows
    selectedFamily,    \* App state: family filter
    selectedStrategy,  \* App state: strategy filter
    searchQuery,       \* App state: free-text query
    filteredData,      \* App: useMemo over the four above
    families,          \* App: useMemo over aggData, the family <option>s
    strategies,        \* App: useMemo over aggData, the strategy <option>s
    rollup,            \* App state: the RollupHeader of the last load, or none
    portfolioTotalMV,  \* App state: the basis-point denominator
    loading,           \* App state
    error,             \* App state: the message shown, or none
    showBasisPoints,   \* App state: the bps toggle
    server,            \* the backend: the rows it serves and the portfolio total
    inflight,          \* the handlers suspended at an await, a bag
    bucketData,        \* ExpiryLadder: what its last render computed
    assetData,         \* AssetTypePieChart: what its last render computed
    aggTable,          \* AggTable: its props and memos as of its last render
    rollupView,        \* RollupHeader: the figures its last render shows
    showTradeForm,     \* App state: the trade form is mounted
    editingTrade,      \* App state: the initialData of the form, or none
    tradeForm          \* TradeEntryForm state: formData, saving, error

vars == <<now, positions, args, call, result, resultRef, allocated, latest, earlier,
          aggData, selectedFamily, selectedStrategy, searchQuery, filteredData,
          families, strategies, rollup, portfolioTotalMV, loading, error,
          showBasisPoints, server, inflight, bucketData, assetData, aggTable,
          rollupView, showTradeForm, editingTrade, tradeForm>>

engineVars == <<resultRef, allocated, latest, earlier>>

loadVars == <<rollup, portfolioTotalMV, loading, error, showBasisPoints, server,
              inflight>>

viewVars == <<bucketData, assetData, aggTable, rollupView>>

formVars == <<showTradeForm, editingTrade, tradeForm>>

appVars == <<aggData, selectedFamily, selectedStrategy, searchQuery, filteredData,
             families, strategies, loadVars, viewVars, formVars>>

---------------------------------------------------------------------------
(* Bounds of the model                                                     *)

TicksPerDay == 3
MaxTicks == 2
MaxRows == 2
BaseYear == 2026

---------------------------------------------------------------------------
(* Optional values and strings                                             *)

NullStr == <<"null">>
None == <<>>
Some(v) == <<v>>

\* JavaScript truthiness of string | null | undefined: null, undefined and ''
\* are falsy.
Truthy(s) == s # NullStr /\ s # <<>>

\* value != null for number | null | undefined
Defined(o) == o # None

\* value || 0
OrZero(o) == IF o = None THEN 0 ELSE o[1]

Abs(n) == IF n < 0 THEN -n ELSE n

LowerChars == <<"a","b","c","d","e","f","g","h","i","j","k","l","m",
                "n","o","p","q","r","s","t","u","v","w","x","y","z">>
UpperChars == <<"A","B","C","D","E","F","G","H","I","J","K","L","M",
                "N","O","P","Q","R","S","T","U","V","W","X","Y","Z">>

UpperChar(c) ==
    IF \E i \in 1..26 : LowerChars[i] = c
    THEN UpperChars[CHOOSE i \in 1..26 : LowerChars[i] = c]
    ELSE c

LowerChar(c) ==
    IF \E i \in 1..26 : UpperChars[i] = c
    THEN LowerChars[CHOOSE i \in 1..26 : UpperChars[i] = c]
    ELSE c

\* String.prototype.toUpperCase / toLowerCase (ASCII)
toUpperCase(s) == [i \in 1..Len(s) |-> UpperChar(s[i])]
toLowerCase(s) == [i \in 1..Len(s) |-> LowerChar(s[i])]

\* String.prototype.includes
includes(s, sub) ==
    \E i \in 0..(Len(s) - Len(sub)) : SubSeq(s, i + 1, i + Len(sub)) = sub

---------------------------------------------------------------------------
(* Calendar dates: dayjs(string), isValid, diff(..., 'day')                *)

Digits == <<"0","1","2","3","4","5","6","7","8","9">>
IsDigit(c) == \E i \in 1..10 : Digits[i] = c
DigitVal(c) == (CHOOSE i \in 1..10 : Digits[i] = c) - 1

\* days since 1970-01-01 of the proleptic Gregorian date y-m-d, m in 1..12
DaysFromCivil(y, m, d) ==
    LET yy  == IF m <= 2 THEN y - 1 ELSE y
        era == yy \div 400
        yoe == yy - era * 400
        mp  == IF m > 2 THEN m - 3 ELSE m + 9
        doy == (153 * mp + 2) \div 5 + d - 1
        doe == yoe * 365 + yoe \div 4 - yoe \div 100 + doy
    IN  era * 146097 + doe - 719468

\* new Date(y, monthIndex, d) in local time, as a day number: out-of-range
\* months and days roll over into the neighbouring months.
DateDay(y, monthIndex, d) ==
    DaysFromCivil(y + monthIndex \div 12, (monthIndex % 12) + 1, 1) + d - 1

\* dayjs's REGEX_PARSE on the 'YYYY-MM-DD' shape an <input type="date"> and
\* the backend produce.
IsDateShape(s) ==
    /\ Len(s) = 10
    /\ s[5] = "-" /\ s[8] = "-"
    /\ \A i \in {1, 2, 3, 4, 6, 7, 9, 10} : IsDigit(s[i])

\* dayjs(expiryDate): the instant (in ticks) of local midnight of the date,
\* None for an Invalid Date.  Strings outside the date shape are the
\* unparsable ones of the model's input domain.
dayjs(s) ==
    IF IsDateShape(s)
    THEN LET y == DigitVal(s[1]) * 1000 + DigitVal(s[2]) * 100
                  + DigitVal(s[3]) * 10 + DigitVal(s[4])
             m == DigitVal(s[6]) * 10 + DigitVal(s[7])
             d == DigitVal(s[9]) * 10 + DigitVal(s[10])
         IN  Some(DateDay(y, m - 1, d) * TicksPerDay)
    ELSE None

isValid(d) == d # None

\* diffDay rounding to the nearest whole day instead of truncating
diffDay_rounded(a, b) ==
    LET n == a - b
    IN  IF n < 0 THEN -((2 * (-n) + TicksPerDay) \div (2 * TicksPerDay))
        ELSE (2 * n + TicksPerDay) \div (2 * TicksPerDay)

\* a.diff(b, 'day'): (a - b) / MS_PER_DAY, truncated toward zero (absFloor).
\* diff takes the difference of the two UTC offsets out, which is why the
\* ticks are ticks of local wall-clock time.
diffDay(a, b) ==
    LET n == a - b
    IN  IF n < 0 THEN -((-n) \div TicksPerDay) ELSE n \div TicksPerDay

---------------------------------------------------------------------------
(* lib/chartUtils: expiry ladder                                           *)

NoBucket == "null"
buckets == <<"0-3M", "3-6M", "6-12M", "12M+">>

\* bucketOfDays with the last bucket lost: nothing beyond a year is classified
bucketOfDays_noLast(daysUntilExpiry) ==
    IF daysUntilExpiry < 0 THEN NoBucket
    ELSE IF daysUntilExpiry <= 90 THEN "0-3M"
    ELSE IF daysUntilExpiry <= 180 THEN "3-6M"
    ELSE IF daysUntilExpiry <= 365 THEN "6-12M"
    ELSE NoBucket

\* bucketOfDays with open upper bounds: < for <=
bucketOfDays_open(daysUntilExpiry) ==
    IF daysUntilExpiry < 0 THEN NoBucket
    ELSE IF daysUntilExpiry < 90 THEN "0-3M"
    ELSE IF daysUntilExpiry < 180 THEN "3-6M"
    ELSE IF daysUntilExpiry < 365 THEN "6-12M"
    ELSE "12M+"

\* bucketOfDays without the check for expired positions
bucketOfDays_keepExpired(daysUntilExpiry) ==
    IF daysUntilExpiry <= 90 THEN "0-3M"
    ELSE IF daysUntilExpiry <= 180 THEN "3-6M"
    ELSE IF daysUntilExpiry <= 365 THEN "6-12M"
    ELSE "12M+"

\* the threshold chain on daysUntilExpiry
bucketOfDays(daysUntilExpiry) ==
    IF daysUntilExpiry < 0 THEN NoBucket
    ELSE IF daysUntilExpiry <= 90 THEN "0-3M"
    ELSE IF daysUntilExpiry <= 180 THEN "3-6M"
    ELSE IF daysUntilExpiry <= 365 THEN "6-12M"
    ELSE "12M+"

\* getExpiryBucket without the isValid check: the difference to an Invalid
\* Date is NaN, every comparison with it is false and the chain falls
\* through to its last bucket
getExpiryBucket_noValidCheck(expiryDate, today) ==
    IF ~Truthy(expiryDate) THEN NoBucket
    ELSE LET expiry == dayjs(expiryDate)
         IN  IF ~isValid(expiry) THEN "12M+"
             ELSE bucketOfDays(diffDay(expiry[1], today))

getExpiryBucket(expiryDate, today) ==
    IF ~Truthy(expiryDate) THEN NoBucket
    ELSE LET expiry == dayjs(expiryDate)
         IN  IF ~isValid(expiry) THEN NoBucket
             ELSE bucketOfDays(diffDay(expiry[1], today))

displayOrderMap(bucket) ==
    CASE bucket = "0-3M"  -> 1
      [] bucket = "3-6M"  -> 2
      [] bucket = "6-12M" -> 3
      [] bucket = "12M+"  -> 4

\* addToBucket summing gross exposure: Math.abs where the code adds the signed value
addToBucket_abs(current, position) ==
    [mv    |-> current.mv + Abs(position.mv_ssc_usd[1]),
     count |-> current.count + 1]

\* current.mv += position.mv_ssc_usd; current.count += 1
addToBucket(current, position) ==
    [mv    |-> current.mv + position.mv_ssc_usd[1],
     count |-> current.count + 1]

\* the positions.forEach of aggregateByExpiryBucket, folded over the first n
\* rows: the bucketMap after them
RECURSIVE bucketMapAfter(_, _, _)
bucketMapAfter(ps, n, today) ==
    IF n = 0 THEN [b \in {buckets[i] : i \in 1..Len(buckets)} |-> [mv |-> 0, count |-> 0]]
    ELSE LET prev     == bucketMapAfter(ps, n - 1, today)
             position == ps[n]
             bucket   == getExpiryBucket(position.expiry, today)
         IN  IF bucket # NoBucket /\ Defined(position.mv_ssc_usd)
             THEN [prev EXCEPT ![bucket] = addToBucket(@, position)]
             ELSE prev

aggregateByExpiryBucket(ps, today) ==
    LET bucketMap == bucketMapAfter(ps, Len(ps), today)
    IN  [i \in 1..Len(buckets) |->
            [bucket       |-> buckets[i],
             marketValue  |-> bucketMap[buckets[i]].mv,
             count        |-> bucketMap[buckets[i]].count,
             displayOrder |-> displayOrderMap(buckets[i])]]

---------------------------------------------------------------------------
(* lib/chartUtils: asset types                                             *)

S_CDX_IG  == <<"C","D","X"," ","I","G">>
S_CDXdIG  == <<"C","D","X",".","I","G">>
S_CDX_HY  == <<"C","D","X"," ","H","Y">>
S_CDXdHY  == <<"C","D","X",".","H","Y">>
S_HYG     == <<"H","Y","G">>
S_SPY     == <<"S","P","Y">>
S_SPX     == <<"S","P","X">>
S_SandP   == <<"S","&","P">>
S_IG      == <<"I","G">>
S_HY      == <<"H","Y">>
S_CREDIT  == <<"C","R","E","D","I","T">>
S_EQUITY  == <<"E","Q","U","I","T","Y">>

\* x?.toUpperCase() || ''
upperOrEmpty(x) == IF Truthy(x) THEN toUpperCase(x) ELSE <<>>

\* getAssetType with the equity-index rule tried before the high-yield rule
getAssetType_spyFirst(position) ==
    LET symbol == upperOrEmpty(position.underlying_symbol)
        type   == upperOrEmpty(position.underlying_type)
    IN  IF includes(symbol, S_CDX_IG) \/ includes(symbol, S_CDXdIG) THEN "IG"
        ELSE IF includes(symbol, S_SPY) \/ includes(symbol, S_SPX)
                \/ includes(symbol, S_SandP) THEN "SPY"
        ELSE IF includes(symbol, S_CDX_HY) \/ includes(symbol, S_CDXdHY)
                \/ includes(symbol, S_HYG) THEN "HY"
        ELSE IF includes(type, S_CREDIT)
             THEN IF includes(symbol, S_IG) THEN "IG"
                  ELSE IF includes(symbol, S_HY) THEN "HY"
                  ELSE "Credit (Other)"
        ELSE IF includes(type, S_EQUITY) THEN "Equity (Other)"
        ELSE "Other"

getAssetType(position) ==
    LET symbol == upperOrEmpty(position.underlying_symbol)
        type   == upperOrEmpty(position.underlying_type)
    IN  IF includes(symbol, S_CDX_IG) \/ includes(symbol, S_CDXdIG) THEN "IG"
        ELSE IF includes(symbol, S_CDX_HY) \/ includes(symbol, S_CDXdHY)
                \/ includes(symbol, S_HYG) THEN "HY"
        ELSE IF includes(symbol, S_SPY) \/ includes(symbol, S_SPX)
                \/ includes(symbol, S_SandP) THEN "SPY"
        ELSE IF includes(type, S_CREDIT)
             THEN IF includes(symbol, S_IG) THEN "IG"
                  ELSE IF includes(symbol, S_HY) THEN "HY"
                  ELSE "Credit (Other)"
        ELSE IF includes(type, S_EQUITY) THEN "Equity (Other)"
        ELSE "Other"

\* The Map assetMap is a sequence of <<assetType, mv>> entries in insertion
\* order, which is the order Map.forEach visits them in.
mapHas(m, k) == \E i \in 1..Len(m) : m[i][1] = k
mapIndex(m, k) == CHOOSE i \in 1..Len(m) : m[i][1] = k
\* assetMap.get(k) || 0
mapGetOrZero(m, k) == IF mapHas(m, k) THEN m[mapIndex(m, k)][2] ELSE 0
mapSet(m, k, v) ==
    IF mapHas(m, k) THEN [m EXCEPT ![mapIndex(m, k)] = <<k, v>>]
    ELSE Append(m, <<k, v>>)

\* what one row adds to its category and to totalMV
grossOf(position) == Abs(position.mv_ssc_usd[1])

\* the positions.forEach of aggregateByAssetType over the first n rows
RECURSIVE assetMapAfter(_, _)
assetMapAfter(ps, n) ==
    IF n = 0 THEN [assetMap |-> <<>>, totalMV |-> 0]
    ELSE LET prev     == assetMapAfter(ps, n - 1)
             position == ps[n]
         IN  IF Defined(position.mv_ssc_usd)
             THEN LET assetType == getAssetType(position)
                      currentMV == mapGetOrZero(prev.assetMap, assetType)
                  IN  [assetMap |-> mapSet(prev.assetMap, assetType,
                                           currentMV + grossOf(position)),
                       totalMV  |-> prev.totalMV + grossOf(position)]
             ELSE prev

colorMap(assetType) ==
    CASE assetType = "IG"             -> "#14b8a6"
      [] assetType = "HY"             -> "#0d9488"
      [] assetType = "SPY"            -> "#2dd4bf"
      [] assetType = "Credit (Other)" -> "#5eead4"
      [] assetType = "Equity (Other)" -> "#99f6e4"
      [] assetType = "Other"          -> "#6b7280"
      [] OTHER                        -> "#6b7280"

\* percentageOf as a share of one: the * 100 forgotten
percentageOf_share(mv, totalMV) ==
    IF totalMV > 0 THEN [num |-> mv, den |-> totalMV]
    ELSE [num |-> 0, den |-> 1]

\* totalMV > 0 ? (mv / totalMV) * 100 : 0, kept exact as the fraction num/den
percentageOf(mv, totalMV) ==
    IF totalMV > 0 THEN [num |-> mv * 100, den |-> totalMV]
    ELSE [num |-> 0, den |-> 1]

\* the comparator turned round: a.marketValue - b.marketValue, ascending
comesBefore_ascending(b, a) == a.marketValue - b.marketValue > 0

\* whether the comparator (a, b) => b.marketValue - a.marketValue puts b
\* strictly before a
comesBefore(b, a) == b.marketValue - a.marketValue > 0

\* Array.prototype.sort (stable): x goes behind every element that does not
\* have to come after it
RECURSIVE insertSorted(_, _)
insertSorted(sorted, x) ==
    IF sorted = <<>> THEN <<x>>
    ELSE IF comesBefore(x, sorted[Len(sorted)])
         THEN Append(insertSorted(SubSeq(sorted, 1, Len(sorted) - 1), x),
                     sorted[Len(sorted)])
         ELSE Append(sorted, x)

RECURSIVE sort(_)
sort(arr) ==
    IF arr = <<>> THEN <<>>
    ELSE insertSorted(sort(SubSeq(arr, 1, Len(arr) - 1)), arr[Len(arr)])

aggregateByAssetType(ps) ==
    LET agg    == assetMapAfter(ps, Len(ps))
        unsorted == [i \in 1..Len(agg.assetMap) |->
                      [assetType   |-> agg.assetMap[i][1],
                       marketValue |-> agg.assetMap[i][2],
                       percentage  |-> percentageOf(agg.assetMap[i][2], agg.totalMV),
                       color       |-> colorMap(agg.assetMap[i][1])]]
    IN  sort(unsorted)

---------------------------------------------------------------------------
(* AggTable: spreadAggregates                                              *)

S_Spread == <<"S","p","r","e","a","d">>

\* isLeg without the is_spread_leg test: any row with a spread_id
isLeg_anyRow(row) == Truthy(row.spread_id)

\* row.spread_id && row.is_spread_leg
isLeg(row) == Truthy(row.spread_id) /\ row.is_spread_leg = Some(TRUE)

\* the entry created for a spread_id not seen before
newAggregate(row) ==
    [mv_total      |-> 0,
     pnl_1d_total  |-> 0,
     pnl_mtd_total |-> 0,
     spread_name   |-> IF Truthy(row.spread_name) THEN row.spread_name
                       ELSE S_Spread]

\* ensureAggregate taking the name from every leg: the last one seen stays
ensureAggregate_lastName(aggregates, row) ==
    IF row.spread_id \in DOMAIN aggregates
    THEN [aggregates EXCEPT ![row.spread_id].spread_name = newAggregate(row).spread_name]
    ELSE aggregates @@ (row.spread_id :> newAggregate(row))

\* if (!aggregates[row.spread_id]) aggregates[row.spread_id] = {...}
ensureAggregate(aggregates, row) ==
    IF row.spread_id \in DOMAIN aggregates THEN aggregates
    ELSE aggregates @@ (row.spread_id :> newAggregate(row))

addLeg(agg, row) ==
    [agg EXCEPT !.mv_total      = @ + OrZero(row.mv_ssc_usd),
                !.pnl_1d_total  = @ + OrZero(row.pnl_1d_usd),
                !.pnl_mtd_total = @ + OrZero(row.pnl_mtd_usd)]

\* the data.forEach of the memo over the first n rows
RECURSIVE aggregatesAfter(_, _)
aggregatesAfter(data, n) ==
    IF n = 0 THEN <<>>
    ELSE LET prev == aggregatesAfter(data, n - 1)
             row  == data[n]
         IN  IF isLeg(row)
             THEN LET aggregates == ensureAggregate(prev, row)
                  IN  [aggregates EXCEPT ![row.spread_id] = addLeg(@, row)]
             ELSE prev

spreadAggregates(data) == aggregatesAfter(data, Len(data))

---------------------------------------------------------------------------
(* App: filteredData                                                       *)

\* field?.toLowerCase().includes(query) || false
matchesField(field, query) ==
    IF field = NullStr THEN FALSE ELSE includes(toLowerCase(field), query)

\* matchesSearch with the query compared as typed: its toLowerCase forgotten
matchesSearch_asTyped(row, q) ==
    LET query == q
        matchesDescription == matchesField(row.investment_description, query)
        matchesLabel       == matchesField(row.hedge_label, query)
        matchesId          == matchesField(row.investment_id, query)
    IN  ~(~matchesDescription /\ ~matchesLabel /\ ~matchesId)

matchesSearch(row, q) ==
    LET query == toLowerCase(q)
        matchesDescription == matchesField(row.investment_description, query)
        matchesLabel       == matchesField(row.hedge_label, query)
        matchesId          == matchesField(row.investment_id, query)
    IN  ~(~matchesDescription /\ ~matchesLabel /\ ~matchesId)

\* the callback of aggData.filter
admits(row, family, strategy, q) ==
    IF Truthy(family) /\ row.hedge_family # family THEN FALSE
    ELSE IF Truthy(strategy) /\ row.strategy # strategy THEN FALSE
    ELSE IF Truthy(q) /\ ~matchesSearch(row, q) THEN FALSE
    ELSE TRUE

\* Array.prototype.filter
RECURSIVE filterRows(_, _, _, _)
filterRows(rows, family, strategy, q) ==
    IF rows = <<>> THEN <<>>
    ELSE LET front == filterRows(SubSeq(rows, 1, Len(rows) - 1), family, strategy, q)
             row   == rows[Len(rows)]
         IN  IF admits(row, family, strategy, q) THEN Append(front, row) ELSE front

---------------------------------------------------------------------------
(* App: families, strategies                                               *)

\* the characters of the model's strings in the order of their UTF-16 code
\* units
CodeUnits ==
    <<" ", "&", "-", ".", "/">> \o Digits \o UpperChars \o LowerChars

\* String.prototype.charCodeAt, up to the order of the code units
charCodeAt(s, i) == CHOOSE k \in 1..Len(CodeUnits) : CodeUnits[k] = s[i]

\* the comparison of Array.prototype.sort without a comparator: the strings
\* are ordered by their code units, a proper prefix before its extensions
RECURSIVE stringLess(_, _)
stringLess(a, b) ==
    IF b = <<>> THEN FALSE
    ELSE IF a = <<>> THEN TRUE
    ELSE IF charCodeAt(a, 1) # charCodeAt(b, 1)
         THEN charCodeAt(a, 1) < charCodeAt(b, 1)
    ELSE stringLess(Tail(a), Tail(b))

\* new Set, then set.add(value) for every row with a truthy value: the
\* values in the order they were first added
RECURSIVE setAfter(_, _)
setAfter(values, n) ==
    IF n = 0 THEN <<>>
    ELSE LET set   == setAfter(values, n - 1)
             value == values[n]
         IN  IF ~Truthy(value) THEN set
             ELSE IF \E k \in 1..Len(set) : set[k] = value THEN set
             ELSE Append(set, value)

RECURSIVE insertString(_, _)
insertString(sorted, x) ==
    IF sorted = <<>> THEN <<x>>
    ELSE IF stringLess(x, Head(sorted)) THEN <<x>> \o sorted
    ELSE <<Head(sorted)>> \o insertString(Tail(sorted), x)

\* Array.from(set).sort()
RECURSIVE sortStrings(_)
sortStrings(arr) ==
    IF arr = <<>> THEN <<>>
    ELSE insertString(sortStrings(SubSeq(arr, 1, Len(arr) - 1)), arr[Len(arr)])

\* the rows the option lists are taken from, with the rows the filter admits
\* in place of the loaded rows
optionRows_admitted(loaded, admitted) == admitted

\* aggData.forEach(...): the option lists are taken from the loaded rows
optionRows(loaded, admitted) == loaded

familiesOf(rows) ==
    sortStrings(setAfter([k \in 1..Len(rows) |-> rows[k].hedge_family], Len(rows)))

strategiesOf(rows) ==
    sortStrings(setAfter([k \in 1..Len(rows) |-> rows[k].strategy], Len(rows)))

---------------------------------------------------------------------------
(* lib/format: formatBasisPoints                                           *)

\* the number NaN, written as the quotient 0/0
NaN == <<0, 0>>

isNaN(value) == value = NaN

S_Dash == <<"-">>
S_bps  == <<" ","b","p","s">>

\* the decimal digits of a natural number
RECURSIVE digitsOf(_)
digitsOf(n) ==
    IF n < 10 THEN <<Digits[n + 1]>>
    ELSE digitsOf(n \div 10) \o <<Digits[(n % 10) + 1]>>

\* (num / den).toFixed(1): the nearest number of tenths, a minus sign before
\* the digits of a negative number.  Where num / den lies halfway between
\* two tenths the double that stands for it lies on either side; halfUp
\* tells which.
toFixed1(num, den, halfUp) ==
    LET a  == Abs(num) * 10
        d  == Abs(den)
        q  == a \div d
        r2 == 2 * (a % d)
        n  == IF r2 > d \/ (r2 = d /\ halfUp) THEN q + 1 ELSE q
    IN  (IF (num < 0) # (den < 0) /\ num # 0 THEN <<"-">> ELSE <<>>)
            \o digitsOf(n \div 10) \o <<".">> \o digitsOf(n % 10)

\* formatBasisPoints with the test of portfolioTotal left out: the division
\* by zero gives Infinity (NaN for 0 / 0)
formatBasisPoints_unguarded(value, portfolioTotal, halfUp) ==
    IF value = None \/ isNaN(value) THEN S_Dash
    ELSE IF portfolioTotal = 0
         THEN (IF value[1] = 0 THEN <<"N","a","N">>
               ELSE (IF value[1] < 0 THEN <<"-">> ELSE <<>>)
                        \o <<"I","n","f","i","n","i","t","y">>) \o S_bps
    ELSE toFixed1(value[1] * 10000, portfolioTotal, halfUp) \o S_bps

\* formatBasisPoints(value, portfolioTotal) with decimals = 1
formatBasisPoints(value, portfolioTotal, halfUp) ==
    IF value = None \/ isNaN(value) \/ portfolioTotal = 0 THEN S_Dash
    ELSE toFixed1(value[1] * 10000, portfolioTotal, halfUp) \o S_bps

---------------------------------------------------------------------------
(* Input rows                                                              *)

\* an AggRow with every optional field absent
BlankRow ==
    [expiry |-> NullStr, mv_ssc_usd |-> None,
     underlying_symbol |-> NullStr, underlying_type |-> NullStr,
     spread_id |-> NullStr, spread_name |-> NullStr, is_spread_leg |-> None,
     pnl_1d_usd |-> None, pnl_mtd_usd |-> None,
     hedge_family |-> NullStr, strategy |-> NullStr,
     investment_description |-> NullStr, hedge_label |-> NullStr,
     investment_id |-> NullStr]

SeqsUpTo(S, n) == UNION {[1..k -> S] : k \in 0..n}

DigitStr2(n) == <<Digits[((n \div 10) % 10) + 1], Digits[(n % 10) + 1]>>
DigitStr4(n) == DigitStr2(n \div 100) \o DigitStr2(n % 100)
\* the 'YYYY-MM-DD' string of a date
DateString(y, m, d) == DigitStr4(y) \o <<"-">> \o DigitStr2(m) \o <<"-">> \o DigitStr2(d)

S_TBD == <<"T","B","D">>

\* midnight of 1 January of BaseYear, where the clock starts
NowStart == DateDay(BaseYear, 0, 1) * TicksPerDay

\* every date string of three years around the clock: day differences from
\* -365 to +729 (day 29..31 of a short month rolls over, as in new Date)
AllDates ==
    {DateString(y, m, d) : y \in (BaseYear - 1)..(BaseYear + 1), m \in 1..12, d \in 1..31}

\* absent, yesterday, today, 91 days and 2 years out
FewExpiries ==
    {NullStr,
     DateString(BaseYear - 1, 12, 31), DateString(BaseYear, 1, 1),
     DateString(BaseYear, 4, 2), DateString(BaseYear + 2, 1, 1)}

MvValues == {None, Some(-40), Some(100)}

ExpiryRowsWide ==
    {[BlankRow EXCEPT !.expiry = e, !.mv_ssc_usd = Some(100)] :
        e \in AllDates \cup {NullStr, <<>>, S_TBD, <<"-">>}}
ExpiryRowsFew  == {[BlankRow EXCEPT !.expiry = e, !.mv_ssc_usd = m] : e \in FewExpiries, m \in MvValues}

\* expiries that are absent, empty, or placeholders that are no date
MalformedExpiries == {NullStr, <<>>, S_TBD, <<"-">>}

\* a row without a usable expiry beside a row of ExpiryRowsFew, either first
ExpiryRowsMixed ==
    {<<[BlankRow EXCEPT !.expiry = e, !.mv_ssc_usd = Some(100)], r>> :
        e \in MalformedExpiries, r \in ExpiryRowsFew}
    \cup {<<r, [BlankRow EXCEPT !.expiry = e, !.mv_ssc_usd = Some(100)]>> :
        e \in MalformedExpiries, r \in ExpiryRowsFew}

ExpiryInputs ==
    [1..1 -> ExpiryRowsWide] \cup SeqsUpTo(ExpiryRowsFew, MaxRows) \cup ExpiryRowsMixed

\* the functions that fold a row set into an output
Aggregators ==
    {"aggregateByExpiryBucket", "aggregateByAssetType", "spreadAggregates", "filter"}

EngineIdle ==
    /\ resultRef = 0
    /\ allocated = 0
    /\ latest = [fn \in Aggregators |-> <<>>]
    /\ earlier = [fn \in Aggregators |-> <<>>]

Idle ==
    /\ args = <<>>
    /\ call = <<"none", 0, 0>>
    /\ result = <<>>
    /\ EngineIdle

\* App with nothing loaded and nothing in flight
LoadIdle ==
    /\ rollup = None
    /\ portfolioTotalMV = 0
    /\ loading = FALSE
    /\ error = None
    /\ showBasisPoints = FALSE
    /\ server = <<>>
    /\ inflight = EmptyBag

\* the components not rendered
ViewIdle ==
    /\ bucketData = <<>>
    /\ assetData = <<>>
    /\ aggTable = <<>>
    /\ rollupView = <<>>

\* the trade form not mounted
FormIdle ==
    /\ showTradeForm = FALSE
    /\ editingTrade = None
    /\ tradeForm = <<>>

AppIdle ==
    /\ aggData = <<>>
    /\ selectedFamily = <<>>
    /\ selectedStrategy = <<>>
    /\ searchQuery = <<>>
    /\ filteredData = <<>>
    /\ families = <<>>
    /\ strategies = <<>>
    /\ LoadIdle
    /\ ViewIdle
    /\ FormIdle

---------------------------------------------------------------------------
(* Expiry ladder: specification                                            *)

InitExpiry ==
    /\ now = NowStart
    /\ positions \in ExpiryInputs
    /\ Idle
    /\ AppIdle

\* the wall clock advances
Tick ==
    /\ now < NowStart + MaxTicks
    /\ now' = now + 1
    /\ UNCHANGED <<positions, args, call, result, engineVars, appVars>>

\* getExpiryBucket(positions[i].expiry), reading the clock
GetExpiryBucket ==
    \E i \in 1..Len(positions) :
        /\ call' = <<"getExpiryBucket", i, now>>
        /\ result' = getExpiryBucket(positions[i].expiry, now)
        /\ UNCHANGED <<now, positions, args, engineVars, appVars>>

\* ExpiryLadder renders: aggregateByExpiryBucket(positions).  The synchronous
\* loop reads the clock once per row; the reads of one pass are one instant.
AggregateByExpiryBucket ==
    /\ call' = <<"aggregateByExpiryBucket", 0, now>>
    /\ result' = aggregateByExpiryBucket(positions, now)
    /\ UNCHANGED <<now, positions, args, engineVars, appVars>>

NextExpiry == Tick \/ GetExpiryBucket \/ AggregateByExpiryBucket

SpecExpiry == InitExpiry /\ [][NextExpiry]_vars

---------------------------------------------------------------------------
(* Expiry ladder: properties                                               *)

RECURSIVE SumSeq(_)
SumSeq(s) == IF s = <<>> THEN 0 ELSE s[1] + SumSeq(Tail(s))

\* the whole number of days in delta ticks, counted toward zero
WholeDays(delta) ==
    CHOOSE d \in {delta \div TicksPerDay, (delta \div TicksPerDay) + 1} :
        /\ Abs(d) * TicksPerDay <= Abs(delta)
        /\ Abs(delta) < (Abs(d) + 1) * TicksPerDay
        /\ (delta >= 0 => d >= 0) /\ (delta <= 0 => d <= 0)

Parsable(expiry) == Truthy(expiry) /\ isValid(dayjs(expiry))

\* days_until of a parsable expiry at the instant today
DaysUntil(expiry, today) == WholeDays(dayjs(expiry)[1] - today)

\* ps without the rows whose index is in drop
RECURSIVE Without(_, _)
Without(ps, drop) ==
    IF ps = <<>> THEN <<>>
    ELSE LET front == Without(SubSeq(ps, 1, Len(ps) - 1), drop)
         IN  IF Len(ps) \in drop THEN front ELSE Append(front, ps[Len(ps)])

CalledGet == call[1] = "getExpiryBucket"
CalledLadder == call[1] = "aggregateByExpiryBucket"

\* C1: aggregateByExpiryBucket returns exactly the four buckets 0-3M, 3-6M,
\* 6-12M, 12M+ in that order with displayOrder 1..4, empty buckets included
\* (count 0, marketValue 0), and the four counts add up to the number of rows
\* with a defined mv_ssc_usd and a parsable expiry whose days_until is not
\* negative.
C1_FourBucketsCountRows ==
    CalledLadder =>
        /\ Len(result) = 4
        /\ [i \in 1..4 |-> result[i].bucket] = <<"0-3M", "3-6M", "6-12M", "12M+">>
        /\ \A i \in 1..4 : result[i].displayOrder = i
        /\ \A i \in 1..4 : result[i].count = 0 => result[i].marketValue = 0
        /\ SumSeq([i \in 1..4 |-> result[i].count])
             = Cardinality({k \in 1..Len(positions) :
                               /\ Defined(positions[k].mv_ssc_usd)
                               /\ Parsable(positions[k].expiry)
                               /\ DaysUntil(positions[k].expiry, call[3]) >= 0})

\* a ladder over two rows of which exactly one is counted, in the last bucket
C1_Witness ==
    /\ CalledLadder
    /\ Len(positions) = 2
    /\ result[4].count = 1
    /\ result[1].count = 0 /\ result[2].count = 0 /\ result[3].count = 0

\* the calendar days from the date of the instant today to the expiry date
CalendarDaysUntil(expiry, today) ==
    (dayjs(expiry)[1] \div TicksPerDay) - (today \div TicksPerDay)

\* C2: getExpiryBucket maps days_until, the whole-day difference between the
\* expiry and the clock, by inclusive upper bounds: negative gives none,
\* 0..90 gives 0-3M, 91..180 gives 3-6M, 181..365 gives 6-12M, more gives 12M+.
\* A date 90 days after the clock's date is 0-3M, one 95 days after it 3-6M,
\* one 5 days before it none, at any time of the day.
C2_BucketByDays ==
    (CalledGet /\ Parsable(positions[call[2]].expiry)) =>
        LET d   == DaysUntil(positions[call[2]].expiry, call[3])
            cal == CalendarDaysUntil(positions[call[2]].expiry, call[3])
        IN  /\ d < 0 => result = NoBucket
            /\ d \in 0..90 => result = "0-3M"
            /\ d \in 91..180 => result = "3-6M"
            /\ d \in 181..365 => result = "6-12M"
            /\ d > 365 => result = "12M+"
            /\ cal = 90 => result = "0-3M"
            /\ cal = 95 => result = "3-6M"
            /\ cal = -5 => result = NoBucket

\* exactly 90 days out is classified 0-3M
C2_Witness ==
    /\ CalledGet
    /\ Parsable(positions[call[2]].expiry)
    /\ DaysUntil(positions[call[2]].expiry, call[3]) = 90
    /\ result = "0-3M"

\* the rows of positions whose expiry instant is strictly before today
ExpiredByInstant(today) ==
    {k \in 1..Len(positions) :
        Parsable(positions[k].expiry) /\ dayjs(positions[k].expiry)[1] < today}

\* the rows of positions whose days_until at today is negative
ExpiredByDays(today) ==
    {k \in 1..Len(positions) :
        Parsable(positions[k].expiry) /\ DaysUntil(positions[k].expiry, today) < 0}

\* C3 as stated: an expiry instant strictly before the clock, by however
\* little, gets no bucket and adds to no sum or count.
C3_ExpiredInstantExcluded ==
    /\ (CalledGet /\ call[2] \in ExpiredByInstant(call[3])) => result = NoBucket
    /\ CalledLadder =>
          result = aggregateByExpiryBucket(Without(positions, ExpiredByInstant(call[3])), call[3])

\* C3 amended: an expiry at least one full day before the clock (days_until
\* negative) gets no bucket and adds to no sum or count.
C3_ExpiredDaysExcluded ==
    /\ (CalledGet /\ call[2] \in ExpiredByDays(call[3])) => result = NoBucket
    /\ CalledLadder =>
          /\ result = aggregateByExpiryBucket(Without(positions, ExpiredByDays(call[3])), call[3])
          /\ SumSeq([i \in 1..4 |-> result[i].count])
                <= Len(positions) - Cardinality(ExpiredByDays(call[3]))

\* a ladder over an expired row with a market value and a counted row
C3_Witness ==
    /\ CalledLadder
    /\ Len(positions) = 2
    /\ ExpiredByDays(call[3]) = {1}
    /\ Defined(positions[1].mv_ssc_usd)
    /\ SumSeq([i \in 1..4 |-> result[i].count]) = 1

\* the rows aggregateByExpiryBucket classifies into bucket b at today and
\* that have a market value
RowsOfBucket(b, today) ==
    {k \in 1..Len(positions) :
        /\ getExpiryBucket(positions[k].expiry, today) = b
        /\ Defined(positions[k].mv_ssc_usd)}

\* C4: each bucket's marketValue is the signed sum of mv_ssc_usd, and its
\* count the number, of the rows classified into it that have a market value;
\* rows without a market value or without a bucket change nothing.
C4_SignedSumPerBucket ==
    CalledLadder =>
        /\ \A i \in 1..4 :
              LET rows == RowsOfBucket(result[i].bucket, call[3])
              IN  /\ result[i].count = Cardinality(rows)
                  /\ result[i].marketValue =
                        SumSeq([k \in 1..Len(positions) |->
                                  IF k \in rows THEN positions[k].mv_ssc_usd[1] ELSE 0])
        /\ result = aggregateByExpiryBucket(
                        Without(positions,
                                {k \in 1..Len(positions) :
                                    \/ ~Defined(positions[k].mv_ssc_usd)
                                    \/ getExpiryBucket(positions[k].expiry, call[3]) = NoBucket}),
                        call[3])

\* a long and a short position in one bucket net out: 100 and -40 give 60
C4_Witness ==
    /\ CalledLadder
    /\ \E i \in 1..4 : result[i].count = 2 /\ result[i].marketValue = 60

\* the rows of positions whose expiry is absent, empty or no date
MalformedRows == {k \in 1..Len(positions) : positions[k].expiry \in MalformedExpiries}

\* C15: getExpiryBucket answers a null, undefined or empty expiry, and a
\* string that is no calendar date, with none (null), not with a bucket or
\* a fault; aggregateByExpiryBucket over rows among which there are such
\* rows returns its four buckets, counting none of them: what it returns
\* for the rows without them.
C15_MalformedExpiryIsNone ==
    /\ (CalledGet /\ call[2] \in MalformedRows) => result = NoBucket
    /\ CalledLadder =>
          /\ Len(result) = 4
          /\ result = aggregateByExpiryBucket(Without(positions, MalformedRows), call[3])
          /\ SumSeq([i \in 1..4 |-> result[i].count]) <= Len(positions) - Cardinality(MalformedRows)

\* a ladder over 'TBD' and a date a year and more ahead, both with a market
\* value: one row is counted
C15_Witness ==
    /\ CalledLadder
    /\ Len(positions) = 2
    /\ positions[1].expiry = S_TBD /\ Defined(positions[1].mv_ssc_usd)
    /\ positions[2].expiry = DateString(BaseYear + 2, 1, 1) /\ Defined(positions[2].mv_ssc_usd)
    /\ result[4].count = 1
    /\ SumSeq([i \in 1..4 |-> result[i].count]) = 1

---------------------------------------------------------------------------
(* Asset types: specification                                              *)

MaxSymbolTokens == 2
MaxAssetRows == 3

S_Credit == <<"C","r","e","d","i","t">>
S_Rates  == <<"R","a","t","e","s">>
S_EquityCredit == <<"E","q","u","i","t","y","/","C","r","e","d","i","t">>
S_Q == <<"Q">>
S_spy == <<"s","p","y">>

\* pieces the symbols of the model are put together from
SymbolTokens ==
    {S_CDX_IG, S_CDXdIG, <<"c","d","x"," ","h","y">>, S_CDXdHY, S_HYG,
     S_spy, S_SPX, S_SandP, S_IG, <<"h","y">>, <<"C","D","X">>,
     <<" ","5","Y">>, S_Q}

RECURSIVE Concat(_)
Concat(ss) == IF ss = <<>> THEN <<>> ELSE ss[1] \o Concat(Tail(ss))

Symbols == {NullStr} \cup {Concat(ts) : ts \in SeqsUpTo(SymbolTokens, MaxSymbolTokens)}
Types == {NullStr, <<>>, S_Credit, S_EQUITY, S_EquityCredit, S_Rates}

AssetRowsWide ==
    {[BlankRow EXCEPT !.underlying_symbol = sy, !.underlying_type = ty,
                      !.mv_ssc_usd = Some(100)] : sy \in Symbols, ty \in Types}

\* one row shape for each of IG, SPY and Other
AssetKinds ==
    {<<S_CDX_IG, S_Credit>>, <<S_spy, S_EQUITY>>, <<NullStr, NullStr>>}

AssetRowsFew ==
    {[BlankRow EXCEPT !.underlying_symbol = k[1], !.underlying_type = k[2],
                      !.mv_ssc_usd = m] :
        k \in AssetKinds, m \in {None, Some(0), Some(-40), Some(100)}}

AssetInputs == [1..1 -> AssetRowsWide] \cup SeqsUpTo(AssetRowsFew, MaxAssetRows)

InitAsset ==
    /\ now = NowStart
    /\ positions \in AssetInputs
    /\ Idle
    /\ AppIdle

\* getAssetType(positions[i])
GetAssetType ==
    \E i \in 1..Len(positions) :
        /\ call' = <<"getAssetType", i, now>>
        /\ result' = getAssetType(positions[i])
        /\ UNCHANGED <<now, positions, args, engineVars, appVars>>

\* AssetTypePieChart renders: aggregateByAssetType(positions)
AggregateByAssetType ==
    /\ call' = <<"aggregateByAssetType", 0, now>>
    /\ result' = aggregateByAssetType(positions)
    /\ UNCHANGED <<now, positions, args, engineVars, appVars>>

NextAsset == GetAssetType \/ AggregateByAssetType

SpecAsset == InitAsset /\ [][NextAsset]_vars

---------------------------------------------------------------------------
(* Asset types: properties                                                 *)

\* s contains marker, letter case ignored
ContainsCI(s, marker) ==
    s # NullStr /\ includes(toLowerCase(s), toLowerCase(marker))

\* the category the rule chain of the specification gives a row
RuleChain(row) ==
    LET sym == row.underlying_symbol
        ty  == row.underlying_type
        r1  == ContainsCI(sym, S_CDX_IG) \/ ContainsCI(sym, S_CDXdIG)
        r2  == ContainsCI(sym, S_CDX_HY) \/ ContainsCI(sym, S_CDXdHY) \/ ContainsCI(sym, S_HYG)
        r3  == ContainsCI(sym, S_SPY) \/ ContainsCI(sym, S_SPX) \/ ContainsCI(sym, S_SandP)
        r4  == ContainsCI(ty, S_CREDIT)
        r5  == ContainsCI(ty, S_EQUITY)
    IN  CASE r1 -> "IG"
          [] ~r1 /\ r2 -> "HY"
          [] ~r1 /\ ~r2 /\ r3 -> "SPY"
          [] ~r1 /\ ~r2 /\ ~r3 /\ r4 /\ ContainsCI(sym, S_IG) -> "IG"
          [] ~r1 /\ ~r2 /\ ~r3 /\ r4 /\ ~ContainsCI(sym, S_IG) /\ ContainsCI(sym, S_HY) -> "HY"
          [] ~r1 /\ ~r2 /\ ~r3 /\ r4 /\ ~ContainsCI(sym, S_IG) /\ ~ContainsCI(sym, S_HY)
                -> "Credit (Other)"
          [] ~r1 /\ ~r2 /\ ~r3 /\ ~r4 /\ r5 -> "Equity (Other)"
          [] ~r1 /\ ~r2 /\ ~r3 /\ ~r4 /\ ~r5 -> "Other"

CalledAssetType == call[1] = "getAssetType"
CalledPie == call[1] = "aggregateByAssetType"

\* C5: getAssetType is the ordered, case-insensitive rule chain in which the
\* first matching rule wins: the symbol rules IG, HY, SPY, then the type rules
\* CREDIT (IG, HY or Credit (Other) by the symbol) and EQUITY, then Other; a
\* symbol rule always beats the underlying_type.
C5_RuleChainFirstMatch ==
    CalledAssetType =>
        LET row == positions[call[2]]
        IN  /\ result = RuleChain(row)
            /\ (ContainsCI(row.underlying_symbol, S_CDXdIG) => result = "IG")

\* symbol 'CDX.IG 5Y' with type 'Credit' is IG
C5_Witness ==
    /\ CalledAssetType
    /\ positions[call[2]].underlying_symbol = S_CDXdIG \o <<" ","5","Y">>
    /\ positions[call[2]].underlying_type = S_Credit
    /\ result = "IG"

\* the rows of positions that have a market value
RowsWithMv == {k \in 1..Len(positions) : Defined(positions[k].mv_ssc_usd)}

\* the gross (absolute) market value of the rows of category c
GrossOfCategory(c) ==
    SumSeq([k \in 1..Len(positions) |->
              IF k \in RowsWithMv /\ getAssetType(positions[k]) = c
              THEN Abs(positions[k].mv_ssc_usd[1]) ELSE 0])

GrossTotal ==
    SumSeq([k \in 1..Len(positions) |->
              IF k \in RowsWithMv THEN Abs(positions[k].mv_ssc_usd[1]) ELSE 0])

\* C6: aggregateByAssetType returns one entry for each category that has a
\* row with a defined mv_ssc_usd, its marketValue the sum of the absolute
\* market values of the category's rows, the entries by marketValue
\* non-increasing.
C6_GrossPerCategorySorted ==
    CalledPie =>
        /\ {result[i].assetType : i \in 1..Len(result)}
              = {getAssetType(positions[k]) : k \in RowsWithMv}
        /\ \A i, j \in 1..Len(result) : result[i].assetType = result[j].assetType => i = j
        /\ \A i \in 1..Len(result) : result[i].marketValue = GrossOfCategory(result[i].assetType)
        /\ \A i, j \in 1..Len(result) : i < j => result[i].marketValue >= result[j].marketValue

\* three categories met in ascending order of exposure come out descending,
\* a short position counted by its absolute value
C6_Witness ==
    /\ CalledPie
    /\ Len(positions) = 3 /\ Len(result) = 3
    /\ [k \in 1..3 |-> positions[k].mv_ssc_usd] = <<Some(0), Some(-40), Some(100)>>
    /\ [i \in 1..3 |-> result[i].marketValue] = <<100, 40, 0>>

RECURSIVE Gcd(_, _)
Gcd(a, b) == IF b = 0 THEN a ELSE Gcd(b, a % b)

\* the fraction num/den in lowest terms
Reduced(num, den) ==
    LET g == Gcd(Abs(num), Abs(den))
    IN  IF g = 0 THEN [num |-> num, den |-> den]
        ELSE [num |-> num \div g, den |-> den \div g]

RatAdd(p, q) ==
    LET a == Reduced(p.num, p.den)
        b == Reduced(q.num, q.den)
    IN  Reduced(a.num * b.den + b.num * a.den, a.den * b.den)

RECURSIVE RatSum(_)
RatSum(ps) == IF ps = <<>> THEN [num |-> 0, den |-> 1] ELSE RatAdd(ps[1], RatSum(Tail(ps)))

\* C7: each percentage is marketValue / gross total * 100 (fractions are
\* exact), so the percentages add up to 100 when the gross total is not zero;
\* when it is zero every percentage is 0; no percentage has a zero divisor.
C7_PercentagesOfGross ==
    CalledPie =>
        LET sum == RatSum([i \in 1..Len(result) |-> result[i].percentage])
        IN  /\ \A i \in 1..Len(result) : result[i].percentage.den # 0
            /\ GrossTotal # 0 =>
                  /\ \A i \in 1..Len(result) :
                        result[i].percentage.num * GrossTotal
                           = result[i].marketValue * 100 * result[i].percentage.den
                  /\ sum.num = 100 * sum.den
            /\ GrossTotal = 0 =>
                  \A i \in 1..Len(result) : result[i].percentage.num = 0

\* 100 and -40 in two categories: 100/140 and 40/140 of the gross total
C7_Witness ==
    /\ CalledPie
    /\ Len(result) = 2
    /\ GrossTotal = 140
    /\ result[1].percentage.num * 140 = 100 * 100 * result[1].percentage.den
    /\ result[2].percentage.num * 140 = 40 * 100 * result[2].percentage.den

---------------------------------------------------------------------------
(* Spread aggregates: specification                                        *)

MaxSpreadRows == 3

S_S1 == <<"S","1">>
S_S2 == <<"S","2">>
S_A  == <<"A">>
S_B  == <<"B">>

\* mv_ssc_usd, pnl_1d_usd, pnl_mtd_usd of a row
Metrics == {<<Some(100), Some(5), None>>, <<Some(-40), None, Some(-7)>>}

SpreadRow(id, leg, name, m) ==
    [BlankRow EXCEPT !.spread_id = id, !.is_spread_leg = leg, !.spread_name = name,
                     !.mv_ssc_usd = m[1], !.pnl_1d_usd = m[2], !.pnl_mtd_usd = m[3]]

\* legs of two spreads, and rows that are no legs: no spread_id, an empty
\* one, is_spread_leg false or absent
SpreadRows ==
    {SpreadRow(id, Some(TRUE), name, m) :
        id \in {S_S1, S_S2}, name \in {NullStr, S_A, S_B}, m \in Metrics}
    \cup {SpreadRow(NullStr, Some(TRUE), S_A, <<Some(100), Some(5), None>>),
          SpreadRow(<<>>, Some(TRUE), S_A, <<Some(100), Some(5), None>>),
          SpreadRow(S_S1, Some(FALSE), S_A, <<Some(100), Some(5), None>>),
          SpreadRow(S_S1, None, S_A, <<Some(100), Some(5), None>>)}

InitSpread ==
    /\ now = NowStart
    /\ positions \in SeqsUpTo(SpreadRows, MaxSpreadRows)
    /\ Idle
    /\ AppIdle

\* AggTable renders with data = positions: the spreadAggregates memo
SpreadAggregates ==
    /\ call' = <<"spreadAggregates", 0, now>>
    /\ result' = spreadAggregates(positions)
    /\ UNCHANGED <<now, positions, args, engineVars, appVars>>

NextSpread == SpreadAggregates

SpecSpread == InitSpread /\ [][NextSpread]_vars

---------------------------------------------------------------------------
(* Spread aggregates: properties                                           *)

CalledSpread == call[1] = "spreadAggregates"

\* the rows of positions that are legs of spread id: they carry that
\* spread_id and is_spread_leg = true
LegsOf(id) ==
    {k \in 1..Len(positions) :
        positions[k].spread_id = id /\ positions[k].is_spread_leg = <<TRUE>>}

\* the spread_ids of positions; an absent or empty spread_id is none
SpreadIds ==
    {positions[k].spread_id : k \in 1..Len(positions)} \ {NullStr, <<>>}

FieldOrZero(o) == IF o = <<>> THEN 0 ELSE o[1]

C9_FirstLegNamesSpread ==
    CalledSpread =>
        \A id \in DOMAIN result :
            LET first == CHOOSE k \in LegsOf(id) : \A j \in LegsOf(id) : k <= j
                name  == positions[first].spread_name
            IN  result[id].spread_name =
                    (IF name = NullStr \/ name = <<>> THEN S_Spread ELSE name)

\* two legs of one spread that disagree: the first one's name is kept
C9_Witness ==
    /\ CalledSpread
    /\ Len(positions) = 2
    /\ LegsOf(S_S1) = {1, 2}
    /\ positions[1].spread_name = S_A /\ positions[2].spread_name = S_B
    /\ result[S_S1].spread_name = S_A

---------------------------------------------------------------------------
(* Filter: specification                                                   *)

MaxFilterRows == 2

S_Tail    == <<"T","a","i","l">>
S_TAIL    == <<"T","A","I","L">>
S_Macro   == <<"M","a","c","r","o">>
S_Digital == <<"D","i","g","i","t","a","l">>
S_digit   == <<"d","i","g","i","t">>
S_ID9     == <<"I","D","9">>

\* hedge_family and strategy of a row
Groupings ==
    {<<NullStr, S_Macro>>, <<<<>>, S_Digital>>, <<S_Tail, S_Macro>>, <<S_TAIL, NullStr>>}

\* investment_description, hedge_label, investment_id of a row
Texts ==
    {<<NullStr, NullStr, NullStr>>, <<S_Digital, NullStr, NullStr>>,
     <<NullStr, S_digit, NullStr>>, <<NullStr, NullStr, S_ID9>>}

FilterRows ==
    {[BlankRow EXCEPT !.hedge_family = g[1], !.strategy = g[2],
                      !.investment_description = t[1], !.hedge_label = t[2],
                      !.investment_id = t[3]] : g \in Groupings, t \in Texts}

\* what the user types into the search box
Queries == {<<>>, <<"T","A","L">>, <<"d","i","g">>, <<"i","d","9">>}

\* the <option>s of the two <select>s: All, and the values of the loaded rows
familyOptions == {<<>>} \cup {families[k] : k \in 1..Len(families)}
strategyOptions == {<<>>} \cup {strategies[k] : k \in 1..Len(strategies)}

InitFilter ==
    /\ now = NowStart
    /\ positions = <<>>
    /\ Idle
    /\ aggData \in SeqsUpTo(FilterRows, MaxFilterRows)
    /\ selectedFamily = <<>>
    /\ selectedStrategy = <<>>
    /\ searchQuery = <<>>
    /\ filteredData = filterRows(aggData, <<>>, <<>>, <<>>)
    /\ families = familiesOf(optionRows(aggData, filteredData))
    /\ strategies = strategiesOf(optionRows(aggData, filteredData))
    /\ LoadIdle
    /\ ViewIdle
    /\ FormIdle

\* the state setters; App renders again and each memo has the value of its
\* function for the dependencies of this render
Rerender(family, strategy, q) ==
    /\ selectedFamily' = family
    /\ selectedStrategy' = strategy
    /\ searchQuery' = q
    /\ filteredData' = filterRows(aggData, family, strategy, q)
    /\ families' = familiesOf(optionRows(aggData, filteredData'))
    /\ strategies' = strategiesOf(optionRows(aggData, filteredData'))
    /\ UNCHANGED <<now, positions, args, call, result, engineVars, aggData,
                   loadVars, viewVars, formVars>>

setSelectedFamily ==
    \E family \in familyOptions \ {selectedFamily} :
        Rerender(family, selectedStrategy, searchQuery)

setSelectedStrategy ==
    \E strategy \in strategyOptions \ {selectedStrategy} :
        Rerender(selectedFamily, strategy, searchQuery)

setSearchQuery ==
    \E q \in Queries \ {searchQuery} :
        Rerender(selectedFamily, selectedStrategy, q)

\* the Clear Filters button, shown while a filter is set
ClearFilters ==
    /\ Truthy(selectedFamily) \/ Truthy(selectedStrategy) \/ Truthy(searchQuery)
    /\ Rerender(<<>>, <<>>, <<>>)

NextFilter == setSelectedFamily \/ setSelectedStrategy \/ setSearchQuery \/ ClearFilters

SpecFilter == InitFilter /\ [][NextFilter]_vars

---------------------------------------------------------------------------
(* Filter: properties                                                      *)

\* query, letter case ignored, is part of a field that is not null
TextMatches(row, query) ==
    \E field \in {row.investment_description, row.hedge_label, row.investment_id} :
        field # NullStr /\ includes(toLowerCase(field), toLowerCase(query))

Admitted(row) ==
    /\ selectedFamily = <<>> \/ row.hedge_family = selectedFamily
    /\ selectedStrategy = <<>> \/ row.strategy = selectedStrategy
    /\ searchQuery = <<>> \/ TextMatches(row, searchQuery)

\* C10: filteredData holds, in the order of aggData, exactly the rows for
\* which all three hold: no family filter or the same hedge_family, no
\* strategy filter or the same strategy, no query or the lower-cased query
\* inside the lower-cased description, label or id (a null field never
\* matches); with no filter set it holds every row.
C10_FilterAdmitsConjunction ==
    /\ filteredData = Without(aggData, {k \in 1..Len(aggData) : ~Admitted(aggData[k])})
    /\ (selectedFamily = <<>> /\ selectedStrategy = <<>> /\ searchQuery = <<>>)
          => filteredData = aggData

\* a family and a query are set; of two rows of that family one matches the
\* query and is kept, the other is dropped
C10_Witness ==
    /\ selectedFamily = S_Tail
    /\ searchQuery = <<"T","A","L">>
    /\ Len(aggData) = 2
    /\ aggData[1].hedge_family = S_Tail /\ aggData[2].hedge_family = S_Tail
    /\ filteredData = <<aggData[2]>>

---------------------------------------------------------------------------
(* Option lists: properties                                                *)

\* a comes before b in the order of code units
Precedes(a, b) ==
    \/ Len(a) < Len(b) /\ SubSeq(b, 1, Len(a)) = a
    \/ \E p \in 1..Len(a) :
          /\ p <= Len(b)
          /\ SubSeq(a, 1, p - 1) = SubSeq(b, 1, p - 1)
          /\ charCodeAt(a, p) < charCodeAt(b, p)

Ascending(list) == \A i \in 1..(Len(list) - 1) : Precedes(list[i], list[i + 1])

ValuesOf(list) == {list[k] : k \in 1..Len(list)}

FamiliesPresent   == {aggData[k].hedge_family : k \in 1..Len(aggData)}
StrategiesPresent == {aggData[k].strategy : k \in 1..Len(aggData)}

\* C11 as stated: the option lists hold every distinct non-null value of
\* the loaded rows, sorted ascending without duplicates.
C11_OptionsAreNonNullValues ==
    /\ ValuesOf(families) = FamiliesPresent \ {NullStr}
    /\ ValuesOf(strategies) = StrategiesPresent \ {NullStr}
    /\ Ascending(families)
    /\ Ascending(strategies)

\* C11: the family and strategy option lists hold the distinct values of
\* the loaded rows (aggData) that are neither null nor the empty string,
\* in strictly ascending order of code units; a step that leaves aggData
\* unchanged, whatever it does to the filters, leaves both lists unchanged.
C11_OptionsFromLoadedRows ==
    /\ [](/\ ValuesOf(families) = FamiliesPresent \ {NullStr, <<>>}
          /\ ValuesOf(strategies) = StrategiesPresent \ {NullStr, <<>>}
          /\ Ascending(families)
          /\ Ascending(strategies))
    /\ [][aggData' = aggData => families' = families /\ strategies' = strategies]_vars

\* two families are loaded, in descending order; the filter selects one and
\* rejects the row of the other, whose family is still offered
C11_Witness ==
    /\ Len(aggData) = 2
    /\ aggData[1].hedge_family = S_Tail /\ aggData[2].hedge_family = S_TAIL
    /\ selectedFamily = S_Tail
    /\ filteredData = <<aggData[1]>>
    /\ families = <<S_TAIL, S_Tail>>

---------------------------------------------------------------------------
(* formatBasisPoints: specification                                        *)

\* value: absent, NaN, and dollar amounts; portfolioTotal: dollar amounts
BpsValues == {None, NaN} \cup {Some(v) : v \in {0, 1, -1, 5, 15, 150, -150, 2500}}
BpsTotals == {0, 1000000, -1000000, 200000, 40000, 3, -7}

InitBps ==
    /\ now = NowStart
    /\ positions = <<>>
    /\ args \in BpsValues \X BpsTotals
    /\ call = <<"none", 0, 0>>
    /\ result = <<>>
    /\ EngineIdle
    /\ AppIdle

FormatBasisPoints ==
    \E halfUp \in BOOLEAN :
        /\ call' = <<"formatBasisPoints", 0, 0>>
        /\ result' = formatBasisPoints(args[1], args[2], halfUp)
        /\ UNCHANGED <<now, positions, args, engineVars, appVars>>

NextBps == FormatBasisPoints

SpecBps == InitBps /\ [][NextBps]_vars

---------------------------------------------------------------------------
(* formatBasisPoints: properties                                           *)

CalledBps == call[1] = "formatBasisPoints"

RECURSIVE NumberOf(_)
NumberOf(digs) ==
    IF digs = <<>> THEN 0
    ELSE 10 * NumberOf(SubSeq(digs, 1, Len(digs) - 1)) + DigitVal(digs[Len(digs)])

\* text is '<digits>.<digit> bps', a minus sign before it or not
IsBpsText(text) ==
    /\ Len(text) >= 7
    /\ SubSeq(text, Len(text) - 3, Len(text)) = S_bps
    /\ text[Len(text) - 5] = "."
    /\ IsDigit(text[Len(text) - 4])
    /\ LET whole == SubSeq(text, 1, Len(text) - 6)
           digs  == IF whole[1] = "-" THEN Tail(whole) ELSE whole
       IN  digs # <<>> /\ \A i \in 1..Len(digs) : IsDigit(digs[i])

\* the number of tenths of a basis point that text shows, without its sign
TenthsShown(text) ==
    LET whole == SubSeq(text, 1, Len(text) - 6)
        digs  == IF whole[1] = "-" THEN Tail(whole) ELSE whole
    IN  10 * NumberOf(digs) + DigitVal(text[Len(text) - 4])

\* C12: formatBasisPoints gives '-' when value is null/undefined (or NaN)
\* and when portfolioTotal is 0, whatever the value: never a number, 0 or
\* Infinity, for a zero total.  Otherwise it gives (value / portfolioTotal)
\* x 10000 to the nearest tenth followed by ' bps', negative exactly when
\* value and total differ in sign; 150 against 1,000,000 gives '1.5 bps'.
C12_BasisPointsOfTotal ==
    CalledBps =>
        LET value == args[1]
            total == args[2]
        IN  IF value = None \/ value = NaN \/ total = 0
            THEN result = S_Dash
            ELSE /\ IsBpsText(result)
                 /\ 2 * Abs(TenthsShown(result) * Abs(total) - Abs(value[1]) * 100000)
                        <= Abs(total)
                 /\ (result[1] = "-") <=> ((value[1] < 0) # (total < 0) /\ value[1] # 0)
                 /\ (value = Some(150) /\ total = 1000000)
                        => result = <<"1",".","5"," ","b","p","s">>

\* 150 against a total of zero: not computable
C12_Witness ==
    /\ CalledBps
    /\ args = <<Some(150), 0>>
    /\ result = S_Dash

---------------------------------------------------------------------------
(* Repeated invocations on one row set: specification                      *)

MaxEngineRows == 2
MaxAllocations == 2

\* the array object the caller hands in; the objects allocated later are
\* numbered from 2, and 0 stands for a result that is no object
positionsRef == 1

\* rows with every field the six functions read: a leg 91 days from expiry,
\* a leg expiring today, a row without expiry or market value
EngineRows ==
    {[BlankRow EXCEPT !.expiry = DateString(BaseYear, 4, 2), !.mv_ssc_usd = Some(100),
                      !.underlying_symbol = S_CDX_IG, !.underlying_type = S_Credit,
                      !.spread_id = S_S1, !.is_spread_leg = Some(TRUE), !.spread_name = S_A,
                      !.hedge_family = S_Tail, !.investment_description = S_Digital],
     [BlankRow EXCEPT !.expiry = DateString(BaseYear, 1, 1), !.mv_ssc_usd = Some(-40),
                      !.underlying_symbol = S_spy, !.underlying_type = S_EQUITY,
                      !.spread_id = S_S1, !.is_spread_leg = Some(TRUE), !.spread_name = S_B,
                      !.hedge_family = S_Tail, !.strategy = S_Macro,
                      !.investment_id = S_ID9],
     [BlankRow EXCEPT !.hedge_family = S_TAIL, !.hedge_label = S_digit]}

\* selectedFamily, selectedStrategy, searchQuery of the filter
EngineFilters ==
    {<<<<>>, <<>>, <<>>>>, <<S_Tail, <<>>, <<>>>>, <<<<>>, S_Macro, <<"I","d">>>>}

InitEngine ==
    /\ now = NowStart
    /\ positions \in SeqsUpTo(EngineRows, MaxEngineRows)
    /\ args \in EngineFilters
    /\ call = <<"none", 0, 0>>
    /\ result = <<>>
    /\ resultRef = 0
    /\ allocated = positionsRef
    /\ latest = [fn \in Aggregators |-> <<>>]
    /\ earlier = [fn \in Aggregators |-> <<>>]
    /\ AppIdle

\* fn, invoked on row i (0: on the row set), reads the clock (0: it reads
\* none) and returns out, the object ref
Returns(fn, i, clock, out, ref) ==
    /\ call' = <<fn, i, clock>>
    /\ result' = out
    /\ resultRef' = ref
    /\ allocated' = IF ref > allocated THEN ref ELSE allocated
    /\ IF fn \in Aggregators
       THEN /\ earlier' = [earlier EXCEPT ![fn] = latest[fn]]
            /\ latest' = [latest EXCEPT ![fn] = <<clock, out>>]
       ELSE UNCHANGED <<latest, earlier>>
    /\ UNCHANGED <<now, positions, args, appVars>>

\* the filter handing back its input when no filter is set, without a copy
filterReturns_inputWhenUnfiltered(input, fresh, family, strategy, q) ==
    IF ~Truthy(family) /\ ~Truthy(strategy) /\ ~Truthy(q) THEN input ELSE fresh

\* aggData.filter(...) returns a new array
filterReturns(input, fresh, family, strategy, q) == fresh

\* getExpiryBucket and getAssetType return strings or null, no object
CallGetExpiryBucket ==
    \E i \in 1..Len(positions) :
        Returns("getExpiryBucket", i, now, getExpiryBucket(positions[i].expiry, now), 0)

CallGetAssetType ==
    \E i \in 1..Len(positions) :
        Returns("getAssetType", i, 0, getAssetType(positions[i]), 0)

\* Array.from(bucketMap.entries()).map(...): a new array
CallAggregateByExpiryBucket ==
    /\ allocated <= MaxAllocations
    /\ Returns("aggregateByExpiryBucket", 0, now, aggregateByExpiryBucket(positions, now),
               allocated + 1)

\* Array.from(assetMap.entries()).map(...).sort(...): a new array, sorted
CallAggregateByAssetType ==
    /\ allocated <= MaxAllocations
    /\ Returns("aggregateByAssetType", 0, 0, aggregateByAssetType(positions), allocated + 1)

\* const aggregates = {}: a new object
CallSpreadAggregates ==
    /\ allocated <= MaxAllocations
    /\ Returns("spreadAggregates", 0, 0, spreadAggregates(positions), allocated + 1)

CallFilter ==
    /\ allocated <= MaxAllocations
    /\ Returns("filter", 0, 0, filterRows(positions, args[1], args[2], args[3]),
               filterReturns(positionsRef, allocated + 1, args[1], args[2], args[3]))

NextEngine ==
    \/ Tick
    \/ CallGetExpiryBucket
    \/ CallGetAssetType
    \/ CallAggregateByExpiryBucket
    \/ CallAggregateByAssetType
    \/ CallSpreadAggregates
    \/ CallFilter

SpecEngine == InitEngine /\ [][NextEngine]_vars

---------------------------------------------------------------------------
(* Repeated invocations: properties                                        *)

DayOf(t) == t \div TicksPerDay
TimeOfDay(t) == t % TicksPerDay

\* the same instant, or two instants of one local day after its midnight
SameDayAfterMidnight(a, b) ==
    \/ a = b
    \/ DayOf(a) = DayOf(b) /\ TimeOfDay(a) > 0 /\ TimeOfDay(b) > 0

C14_InputsUntouchedOutputsFresh ==
    [][/\ positions' = positions
       /\ (now' = now /\ call'[1] \in Aggregators)
             => resultRef' \notin 0..allocated]_vars

\* the filter, with no filter set, ran twice on two rows; its second output
\* is the third object
C14_Witness ==
    /\ call[1] = "filter"
    /\ args = <<<<>>, <<>>, <<>>>>
    /\ earlier["filter"] # <<>>
    /\ Len(positions) = 2
    /\ result = positions
    /\ resultRef = 3

---------------------------------------------------------------------------
(* Backend: the rows served and the Rollup Builder (spec 4.5)              *)

\* the values in the order they are first seen
RECURSIVE firstSeen(_, _)
firstSeen(values, n) ==
    IF n = 0 THEN <<>>
    ELSE LET seen == firstSeen(values, n - 1)
         IN  IF \E k \in 1..Len(seen) : seen[k] = values[n] THEN seen
             ELSE Append(seen, values[n])

sumOf(rows, field) == SumSeq([k \in 1..Len(rows) |-> OrZero(rows[k][field])])

\* GroupedMetrics of the rows of one group
groupedMetrics(rows) ==
    [mv_ssc_usd     |-> sumOf(rows, "mv_ssc_usd"),
     pnl_1d_usd     |-> sumOf(rows, "pnl_1d_usd"),
     pnl_mtd_usd    |-> sumOf(rows, "pnl_mtd_usd"),
     position_count |-> Len(rows)]

\* one GroupedMetrics per distinct key of the rows that have every field of
\* fields; rows with a null key are left out of the view
groupedBy(rows, fields) ==
    LET keyOf(row) == [f \in fields |-> row[f]]
        keyed == SelectSeq(rows, LAMBDA row : \A f \in fields : row[f] # NullStr)
        keys  == firstSeen([k \in 1..Len(keyed) |-> keyOf(keyed[k])], Len(keyed))
    IN  [g \in 1..Len(keys) |->
            keys[g] @@ groupedMetrics(SelectSeq(keyed, LAMBDA row : keyOf(row) = keys[g]))]

\* Totals over the full row set; the sensitivities and the long and short
\* values, which no row of this model carries, are left out
totalsOf(rows) ==
    [total_mv_ssc_usd  |-> sumOf(rows, "mv_ssc_usd"),
     total_pnl_1d_usd  |-> sumOf(rows, "pnl_1d_usd"),
     total_pnl_mtd_usd |-> sumOf(rows, "pnl_mtd_usd"),
     row_count         |-> Len(rows)]

rollupBuilder(rows) ==
    [totals                 |-> totalsOf(rows),
     by_family              |-> groupedBy(rows, {"hedge_family"}),
     by_strategy            |-> groupedBy(rows, {"strategy"}),
     by_family_and_strategy |-> groupedBy(rows, {"hedge_family", "strategy"})]

\* GET /api/rollup and GET /api/agg-table as answered from the backend's data
fetchRollup(backend) ==
    [header |-> rollupBuilder(backend.rows),
     portfolio_total_mv |-> backend.portfolio_total_mv]

fetchAggTable(backend) == backend.rows

\* rows of the backend: two legs of spread S1, a leg of S2 without a family,
\* a row that is no leg
LegA ==
    [BlankRow EXCEPT !.expiry = DateString(BaseYear, 4, 2), !.mv_ssc_usd = Some(100),
                     !.pnl_mtd_usd = Some(5),
                     !.underlying_symbol = S_CDX_IG, !.underlying_type = S_Credit,
                     !.spread_id = S_S1, !.is_spread_leg = Some(TRUE), !.spread_name = S_A,
                     !.hedge_family = S_Tail, !.investment_description = S_Digital]
LegB ==
    [BlankRow EXCEPT !.expiry = DateString(BaseYear, 1, 1), !.mv_ssc_usd = Some(-40),
                     !.pnl_mtd_usd = Some(-7),
                     !.underlying_symbol = S_spy, !.underlying_type = S_EQUITY,
                     !.spread_id = S_S1, !.is_spread_leg = Some(TRUE), !.spread_name = S_B,
                     !.hedge_family = S_Tail, !.strategy = S_Macro, !.investment_id = S_ID9]
LegC ==
    [BlankRow EXCEPT !.mv_ssc_usd = Some(15), !.spread_id = S_S2,
                     !.is_spread_leg = Some(TRUE), !.strategy = S_Macro]
Single ==
    [BlankRow EXCEPT !.hedge_family = S_TAIL, !.hedge_label = S_digit]

\* what the backend can hold: rows and portfolio_total_mv
Books ==
    {[rows |-> <<>>,             portfolio_total_mv |-> 0],
     [rows |-> <<LegA, LegB>>,   portfolio_total_mv |-> 1000000],
     [rows |-> <<LegA, Single>>, portfolio_total_mv |-> 1000000],
     [rows |-> <<LegC, LegB>>,   portfolio_total_mv |-> -7]}

\* err.message of a failed request
Failures == {"Network Error"}

---------------------------------------------------------------------------
(* App: render                                                             *)

\* the props App hands to the three visualisations
ExpiryLadderProps(loaded, admitted) == [positions |-> admitted]

\* the pie chart given the loaded rows in place of the admitted ones
AssetTypePieChartProps_loaded(loaded, admitted) == [positions |-> loaded]

AssetTypePieChartProps(loaded, admitted) == [positions |-> admitted]

\* handleEditTrade kept from the previous render
handleEditTrade_memoised(previous) == previous

\* handleEditTrade is a function created by each render of App: an object
\* that is not the one of the render before
handleEditTrade(previous) == 1 - previous

AggTableProps(loaded, admitted, isLoading, bps, total, edit) ==
    [data |-> admitted, loading |-> isLoading, showBasisPoints |-> bps,
     portfolioTotalMV |-> total, onEdit |-> edit]

\* AggTable before its first render
NotRendered ==
    [props |-> AggTableProps(<<>>, <<>>, TRUE, FALSE, 0, 0),
     sorting |-> 0,
     spreadAggregates |-> <<>>,
     columns |-> [deps |-> <<>>, spreadAggregates |-> <<>>,
                  showBasisPoints |-> FALSE, portfolioTotalMV |-> 0]]

\* a render of AggTable: the memo over [data] has the value of its function
\* for data; the memo over [showBasisPoints, portfolioTotalMV, onEdit] is
\* computed again when one of the three differs from the render before and
\* then closes over the values of this render
AggTable(previous, props, sorting) ==
    LET aggregates == spreadAggregates(props.data)
        deps == <<props.showBasisPoints, props.portfolioTotalMV, props.onEdit>>
    IN  [props |-> props,
         sorting |-> sorting,
         spreadAggregates |-> aggregates,
         columns |-> IF previous.columns.deps = deps THEN previous.columns
                     ELSE [deps |-> deps, spreadAggregates |-> aggregates,
                           showBasisPoints |-> props.showBasisPoints,
                           portfolioTotalMV |-> props.portfolioTotalMV]]

\* the figure of a cell: the formatter called and its arguments
figure(columns, value) ==
    IF columns.showBasisPoints /\ columns.portfolioTotalMV > 0
    THEN <<"formatBasisPoints", value, columns.portfolioTotalMV>>
    ELSE <<"formatCurrency", value>>

\* the cell of the Net MV or MTD PnL column: for a leg the row's own figure
\* and the figure of its package, else the row's figure; reading a field of
\* an aggregate that is not there throws
legCell(columns, row, field, total) ==
    IF row.is_spread_leg = Some(TRUE) /\ Truthy(row.spread_id)
    THEN IF row.spread_id \notin DOMAIN columns.spreadAggregates
         THEN <<"TypeError">>
         ELSE <<figure(columns, row[field]),
                figure(columns, Some(columns.spreadAggregates[row.spread_id][total]))>>
    ELSE <<figure(columns, row[field])>>

netMvCell(columns, row) == legCell(columns, row, "mv_ssc_usd", "mv_total")
mtdPnlCell(columns, row) == legCell(columns, row, "pnl_mtd_usd", "pnl_mtd_total")

\* the figure of the header without the portfolioTotalMV > 0 test
headerFigure_anyTotal(props, value) ==
    IF props.showBasisPoints
    THEN <<"formatBasisPoints", value, props.portfolioTotalMV>>
    ELSE <<"formatCurrency", value>>

\* the figure of the header: the formatter called and its arguments
headerFigure(props, value) ==
    IF props.showBasisPoints /\ props.portfolioTotalMV > 0
    THEN <<"formatBasisPoints", value, props.portfolioTotalMV>>
    ELSE <<"formatCurrency", value>>

\* what RollupHeader returns: the loading placeholder, nothing, or the four
\* cards and one figure per by_family entry
RollupHeader(props) ==
    IF props.loading THEN [shown |-> "loading", cards |-> <<>>, families |-> <<>>]
    ELSE IF props.rollup = None THEN [shown |-> "null", cards |-> <<>>, families |-> <<>>]
    ELSE LET totals    == props.rollup[1].totals
             by_family == props.rollup[1].by_family
         IN  [shown |-> "summary",
              cards |-> <<headerFigure(props, Some(totals.total_mv_ssc_usd)),
                          <<"formatCurrency", Some(props.portfolioTotalMV)>>,
                          <<"formatCurrency", Some(totals.total_pnl_1d_usd)>>,
                          headerFigure(props, Some(totals.total_pnl_mtd_usd))>>,
              families |-> [k \in 1..Len(by_family) |->
                               headerFigure(props, Some(by_family[k].mv_ssc_usd))]]

\* App renders with the state of the primed variables
Render ==
    /\ filteredData' = filterRows(aggData', selectedFamily', selectedStrategy',
                                  searchQuery')
    /\ families' = familiesOf(optionRows(aggData', filteredData'))
    /\ strategies' = strategiesOf(optionRows(aggData', filteredData'))
    /\ bucketData' =
          aggregateByExpiryBucket(ExpiryLadderProps(aggData', filteredData').positions,
                                  now')
    /\ assetData' =
          aggregateByAssetType(AssetTypePieChartProps(aggData', filteredData').positions)
    /\ aggTable' =
          AggTable(aggTable,
                   AggTableProps(aggData', filteredData', loading', showBasisPoints',
                                 portfolioTotalMV', handleEditTrade(aggTable.props.onEdit)),
                   aggTable.sorting)
    /\ rollupView' =
          RollupHeader([rollup |-> rollup', loading |-> loading',
                        showBasisPoints |-> showBasisPoints',
                        portfolioTotalMV |-> portfolioTotalMV'])

---------------------------------------------------------------------------
(* TradeEntryForm                                                          *)

S_Required == "Pretty Name is required"

\* pretty_name: row.pretty_name || row.investment_description || ''; the rows
\* of the model carry no pretty_name
editingTradeOf(row) ==
    [pretty_name |-> IF Truthy(row.investment_description)
                     THEN row.investment_description ELSE <<>>]

\* the state of the form when it mounts: { pretty_name: '', ...initialData }
mountedForm(initialData) ==
    [formData |-> [pretty_name |-> IF initialData = None THEN <<>>
                                   ELSE initialData[1].pretty_name],
     saving |-> FALSE,
     error |-> None]

\* the form App shows after setShowTradeForm(true): the one that is mounted,
\* or a new one
shownForm(initialData) ==
    IF showTradeForm THEN tradeForm ELSE mountedForm(initialData)

\* the test of handleSubmit left out
prettyNameMissing_never(formData) == FALSE

\* !formData.pretty_name
prettyNameMissing(formData) == ~Truthy(formData.pretty_name)

\* what the user types into the Pretty Name input
PrettyNames == {<<>>, S_Digital}

---------------------------------------------------------------------------
(* App: specification                                                      *)

MaxInflight == 2

\* a handler suspended at an await: loadData at its Promise.all, with the
\* responses that have arrived, handleRefresh at refreshData(), or
\* handleSaveTrade at saveTrade()
loadDataTask == [awaiting |-> "Promise.all", rollupData |-> <<>>, tableData |-> <<>>]
handleRefreshTask == [awaiting |-> "refreshData", rollupData |-> <<>>, tableData |-> <<>>]
handleSaveTradeTask == [awaiting |-> "saveTrade", rollupData |-> <<>>, tableData |-> <<>>]

\* the handlers suspended at the given await
Awaiting(what) == {task \in BagToSet(inflight) : task.awaiting = what}

Suspend(task) == inflight (+) SetToBag({task})
Resume(task) == inflight (-) SetToBag({task})

\* the try block of loadData after the await, its setAggData left out
afterLoad_headerOnly(rollupData, tableData) ==
    /\ rollup' = Some(rollupData.header)
    /\ aggData' = aggData
    /\ portfolioTotalMV' = rollupData.portfolio_total_mv

\* the try block of loadData after the await
afterLoad(rollupData, tableData) ==
    /\ rollup' = Some(rollupData.header)
    /\ aggData' = tableData
    /\ portfolioTotalMV' = rollupData.portfolio_total_mv

\* the catch block of loadData, dropping the header as well
afterFailure_headerDropped(message) ==
    /\ error' = Some(message)
    /\ rollup' = None
    /\ UNCHANGED <<aggData, portfolioTotalMV>>

\* the catch block of loadData, emptying the table as well
afterFailure_cleared(message) ==
    /\ error' = Some(message)
    /\ aggData' = <<>>
    /\ UNCHANGED <<rollup, portfolioTotalMV>>

\* the catch block of loadData
afterFailure(message) ==
    /\ error' = Some(message)
    /\ UNCHANGED <<rollup, aggData, portfolioTotalMV>>

\* the state when the effect of the first render has called loadData and
\* loadData waits for its two requests
InitApp ==
    /\ now = NowStart
    /\ positions = <<>>
    /\ Idle
    /\ aggData = <<>>
    /\ rollup = None
    /\ loading = TRUE
    /\ error = None
    /\ selectedFamily = <<>>
    /\ selectedStrategy = <<>>
    /\ searchQuery = <<>>
    /\ showBasisPoints = FALSE
    /\ portfolioTotalMV = 0
    /\ showTradeForm = FALSE
    /\ editingTrade = None
    /\ tradeForm = <<>>
    /\ server \in Books
    /\ inflight = SetToBag({loadDataTask})
    /\ filteredData = filterRows(aggData, selectedFamily, selectedStrategy, searchQuery)
    /\ families = familiesOf(optionRows(aggData, filteredData))
    /\ strategies = strategiesOf(optionRows(aggData, filteredData))
    /\ bucketData =
          aggregateByExpiryBucket(ExpiryLadderProps(aggData, filteredData).positions, now)
    /\ assetData =
          aggregateByAssetType(AssetTypePieChartProps(aggData, filteredData).positions)
    /\ aggTable =
          AggTable(NotRendered,
                   AggTableProps(aggData, filteredData, loading, showBasisPoints,
                                 portfolioTotalMV, handleEditTrade(NotRendered.props.onEdit)),
                   NotRendered.sorting)
    /\ rollupView =
          RollupHeader([rollup |-> rollup, loading |-> loading,
                        showBasisPoints |-> showBasisPoints,
                        portfolioTotalMV |-> portfolioTotalMV])

engineFrame == UNCHANGED <<now, positions, args, call, result, engineVars>>

filterFrame == UNCHANGED <<selectedFamily, selectedStrategy, searchQuery>>

\* the finally block of loadData left out
finallyLoadData_missing ==
    UNCHANGED loading

\* the finally block of loadData
finallyLoadData ==
    loading' = FALSE

\* a response to one of the two requests of loadData arrives; with both in
\* hand Promise.all resolves and loadData runs to its end
Resolve(task, rollupData, tableData) ==
    IF rollupData # <<>> /\ tableData # <<>>
    THEN /\ afterLoad(rollupData[1], tableData[1])
         /\ finallyLoadData
         /\ inflight' = Resume(task)
         /\ UNCHANGED error
    ELSE /\ inflight' = Resume(task) (+)
                           SetToBag({[task EXCEPT !.rollupData = rollupData,
                                                  !.tableData = tableData]})
         /\ UNCHANGED <<rollup, aggData, portfolioTotalMV, loading, error>>

ResolveFetchRollup ==
    \E task \in Awaiting("Promise.all") :
        /\ task.rollupData = <<>>
        /\ Resolve(task, <<fetchRollup(server)>>, task.tableData)
        /\ UNCHANGED <<showBasisPoints, server, formVars>>
        /\ filterFrame
        /\ engineFrame
        /\ Render

ResolveFetchAggTable ==
    \E task \in Awaiting("Promise.all") :
        /\ task.tableData = <<>>
        /\ Resolve(task, task.rollupData, <<fetchAggTable(server)>>)
        /\ UNCHANGED <<showBasisPoints, server, formVars>>
        /\ filterFrame
        /\ engineFrame
        /\ Render

\* one of the two requests fails: Promise.all rejects, the catch and finally
\* blocks of loadData run, the other response is dropped
RejectFetch ==
    \E task \in Awaiting("Promise.all"), message \in Failures :
        /\ afterFailure(message)
        /\ finallyLoadData
        /\ inflight' = Resume(task)
        /\ UNCHANGED <<showBasisPoints, server, formVars>>
        /\ filterFrame
        /\ engineFrame
        /\ Render

\* the Refresh button, disabled while loading: handleRefresh up to its await
handleRefresh ==
    /\ ~loading
    /\ BagCardinality(inflight) < MaxInflight
    /\ loading' = TRUE
    /\ inflight' = Suspend(handleRefreshTask)
    /\ UNCHANGED <<rollup, aggData, portfolioTotalMV, error, showBasisPoints, server,
                   formVars>>
    /\ filterFrame
    /\ engineFrame
    /\ Render

\* POST /api/refresh answers: the backend has read its source again, and
\* handleRefresh goes on into loadData up to its await
ResolveRefreshDataFrom(books) ==
    \E task \in Awaiting("refreshData"), book \in books :
        /\ server' = book
        /\ loading' = TRUE
        /\ error' = None
        /\ inflight' = Resume(task) (+) SetToBag({loadDataTask})
        /\ UNCHANGED <<rollup, aggData, portfolioTotalMV, showBasisPoints, formVars>>
        /\ filterFrame
        /\ engineFrame
        /\ Render

ResolveRefreshData == ResolveRefreshDataFrom(Books)

\* the catch block of handleRefresh without its setLoading(false)
afterRefreshFailure_stillLoading(message) ==
    /\ error' = Some(message)
    /\ UNCHANGED loading

\* the catch block of handleRefresh
afterRefreshFailure(message) ==
    /\ error' = Some(message)
    /\ loading' = FALSE

\* POST /api/refresh fails
RejectRefreshData ==
    \E task \in Awaiting("refreshData"), message \in Failures :
        /\ afterRefreshFailure(message)
        /\ inflight' = Resume(task)
        /\ UNCHANGED <<rollup, aggData, portfolioTotalMV, showBasisPoints, server,
                       formVars>>
        /\ filterFrame
        /\ engineFrame
        /\ Render

\* a filter setter called by the Toolbar
SetFilter(family, strategy, q) ==
    /\ selectedFamily' = family
    /\ selectedStrategy' = strategy
    /\ searchQuery' = q
    /\ UNCHANGED <<rollup, aggData, portfolioTotalMV, loading, error, showBasisPoints,
                   server, inflight, formVars>>
    /\ engineFrame
    /\ Render

\* the family <select>, disabled while loading, and the chip's x button
onFamilyChange ==
    \/ /\ ~loading
       /\ \E family \in familyOptions \ {selectedFamily} :
              SetFilter(family, selectedStrategy, searchQuery)
    \/ /\ Truthy(selectedFamily)
       /\ SetFilter(<<>>, selectedStrategy, searchQuery)

onStrategyChange ==
    \/ /\ ~loading
       /\ \E strategy \in strategyOptions \ {selectedStrategy} :
              SetFilter(selectedFamily, strategy, searchQuery)
    \/ /\ Truthy(selectedStrategy)
       /\ SetFilter(selectedFamily, <<>>, searchQuery)

\* what the user types into the search box of the App
AppQueries == {<<>>, <<"i","d","9">>}

onSearchChange ==
    \/ /\ ~loading
       /\ \E q \in AppQueries \ {searchQuery} :
              SetFilter(selectedFamily, selectedStrategy, q)
    \/ /\ Truthy(searchQuery)
       /\ SetFilter(selectedFamily, selectedStrategy, <<>>)

\* the Clear Filters button is rendered while a filter is set
clearFiltersShown == Truthy(selectedFamily) \/ Truthy(selectedStrategy) \/ Truthy(searchQuery)

\* the Clear Filters button without its onSearchChange('')
onClearFilters_searchKept ==
    /\ ~loading
    /\ clearFiltersShown
    /\ SetFilter(<<>>, <<>>, searchQuery)

\* the Clear Filters button, disabled while loading
onClearFilters ==
    /\ ~loading
    /\ clearFiltersShown
    /\ SetFilter(<<>>, <<>>, <<>>)

\* the bps button, disabled while loading
onToggleBasisPoints ==
    /\ ~loading
    /\ showBasisPoints' = ~showBasisPoints
    /\ UNCHANGED <<rollup, aggData, portfolioTotalMV, loading, error, server, inflight,
                   formVars>>
    /\ filterFrame
    /\ engineFrame
    /\ Render

\* a click on a column header of the table: AggTable renders again with the
\* props it has
onSortingChange ==
    /\ ~loading
    /\ aggTable' = AggTable(aggTable, aggTable.props, 1 - aggTable.sorting)
    /\ UNCHANGED <<aggData, filteredData, families, strategies, loadVars, bucketData,
                   assetData, rollupView, formVars>>
    /\ filterFrame
    /\ engineFrame

\* the Add Trade button, disabled while loading
handleAddTrade ==
    /\ ~loading
    /\ editingTrade' = None
    /\ showTradeForm' = TRUE
    /\ tradeForm' = shownForm(editingTrade')
    /\ UNCHANGED loadVars
    /\ UNCHANGED aggData
    /\ filterFrame
    /\ engineFrame
    /\ Render

\* the Edit button of a row of the table, which is rendered while not loading
onEdit ==
    /\ ~loading
    /\ \E k \in 1..Len(filteredData) :
           editingTrade' = Some(editingTradeOf(filteredData[k]))
    /\ showTradeForm' = TRUE
    /\ tradeForm' = shownForm(editingTrade')
    /\ UNCHANGED loadVars
    /\ UNCHANGED aggData
    /\ filterFrame
    /\ engineFrame
    /\ Render

formFrame == UNCHANGED <<aggData, filteredData, families, strategies, viewVars>>

\* the Pretty Name input
handleChange ==
    /\ showTradeForm
    /\ \E value \in PrettyNames \ {tradeForm.formData.pretty_name} :
           tradeForm' = [tradeForm EXCEPT !.formData.pretty_name = value]
    /\ UNCHANGED <<loadVars, showTradeForm, editingTrade>>
    /\ formFrame
    /\ filterFrame
    /\ engineFrame

\* the submit of the form, its button disabled while saving: handleSubmit up
\* to its return or, through onSave, up to the await of handleSaveTrade
handleSubmit ==
    /\ showTradeForm
    /\ ~tradeForm.saving
    /\ IF prettyNameMissing(tradeForm.formData)
       THEN /\ tradeForm' = [tradeForm EXCEPT !.error = Some(S_Required)]
            /\ UNCHANGED inflight
       ELSE /\ BagCardinality(inflight) < MaxInflight
            /\ tradeForm' = [tradeForm EXCEPT !.error = None, !.saving = TRUE]
            /\ inflight' = Suspend(handleSaveTradeTask)
    /\ UNCHANGED <<rollup, portfolioTotalMV, loading, error, showBasisPoints, server,
                   showTradeForm, editingTrade>>
    /\ formFrame
    /\ filterFrame
    /\ engineFrame

\* the Cancel button of the form, disabled while saving
onCancel ==
    /\ showTradeForm
    /\ ~tradeForm.saving
    /\ showTradeForm' = FALSE
    /\ editingTrade' = None
    /\ tradeForm' = <<>>
    /\ UNCHANGED loadVars
    /\ UNCHANGED aggData
    /\ filterFrame
    /\ engineFrame
    /\ Render

\* POST /api/trade answers: the backend has stored the trade; handleSaveTrade
\* closes the form and goes on into loadData up to its await
ResolveSaveTradeFrom(books) ==
    \E task \in Awaiting("saveTrade"), book \in books :
        /\ server' = book
        /\ showTradeForm' = FALSE
        /\ editingTrade' = None
        /\ tradeForm' = <<>>
        /\ loading' = TRUE
        /\ error' = None
        /\ inflight' = Resume(task) (+) SetToBag({loadDataTask})
        /\ UNCHANGED <<rollup, aggData, portfolioTotalMV, showBasisPoints>>
        /\ filterFrame
        /\ engineFrame
        /\ Render

\* the backend of the trade form's specification holds one of two books
TradeBooks ==
    {[rows |-> <<LegA, LegB>>, portfolio_total_mv |-> 1000000],
     [rows |-> <<LegC, LegB>>, portfolio_total_mv |-> -7]}

ResolveSaveTrade == ResolveSaveTradeFrom(TradeBooks)

\* the catch block of handleSubmit without its setSaving(false)
afterSaveFailure_stillSaving(message) ==
    tradeForm' = [tradeForm EXCEPT !.error = Some(message)]

\* the catch block of handleSubmit
afterSaveFailure(message) ==
    tradeForm' = [tradeForm EXCEPT !.error = Some(message), !.saving = FALSE]

\* POST /api/trade fails: handleSaveTrade throws at its await
RejectSaveTrade ==
    \E task \in Awaiting("saveTrade"), message \in Failures :
        /\ afterSaveFailure(message)
        /\ inflight' = Resume(task)
        /\ UNCHANGED <<rollup, portfolioTotalMV, loading, error, showBasisPoints, server,
                       showTradeForm, editingTrade>>
        /\ formFrame
        /\ filterFrame
        /\ engineFrame

\* App with the trade form left closed
NextApp ==
    \/ ResolveFetchRollup
    \/ ResolveFetchAggTable
    \/ RejectFetch
    \/ handleRefresh
    \/ ResolveRefreshData
    \/ RejectRefreshData
    \/ onFamilyChange
    \/ onStrategyChange
    \/ onSearchChange
    \/ onClearFilters
    \/ onToggleBasisPoints
    \/ onSortingChange

SpecApp == InitApp /\ [][NextApp]_vars

\* App with the filters, the bps toggle and the sorting left as they are
InitTrade ==
    /\ InitApp
    /\ server \in TradeBooks

\* a request of loadData settles
SettleFetch ==
    \/ ResolveFetchRollup
    \/ ResolveFetchAggTable
    \/ RejectFetch

\* the request of handleRefresh settles
SettleRefreshData ==
    \/ ResolveRefreshDataFrom(TradeBooks)
    \/ RejectRefreshData

\* the request of handleSaveTrade settles
SettleSaveTrade ==
    \/ ResolveSaveTrade
    \/ RejectSaveTrade

\* a request of a handler settles
Settle ==
    \/ SettleFetch
    \/ SettleRefreshData
    \/ SettleSaveTrade

NextTrade ==
    \/ Settle
    \/ handleRefresh
    \/ handleAddTrade
    \/ onEdit
    \/ handleChange
    \/ handleSubmit
    \/ onCancel

SpecTrade == InitTrade /\ [][NextTrade]_vars

\* each request eventually settles
\* loadData with the first of its two responses in hand
HalfLoaded ==
    {[loadDataTask EXCEPT !.rollupData = <<fetchRollup(book)>>] : book \in Books}
    \cup {[loadDataTask EXCEPT !.tableData = <<fetchAggTable(book)>>] : book \in Books}

\* what a handler resumed from `task` can leave in flight: nothing when it
\* ends, loadData at its await when it goes on to load, itself with the
\* response in hand when Promise.all waits for the other request
Continuations(task) ==
    IF task = loadDataTask
    THEN {EmptyBag} \cup {SetToBag({held}) : held \in HalfLoaded}
    ELSE IF task.awaiting = "Promise.all"
    THEN {EmptyBag}
    ELSE {EmptyBag, SetToBag({loadDataTask})}

\* the request a handler waits for settles: what the step does to inflight
Settles(what) ==
    \E task \in Awaiting(what) :
        \E continuation \in Continuations(task) :
            inflight' = Resume(task) (+) continuation

\* each request eventually settles: Settles(what) is enabled in the states
\* where the action that settles the request is, and the steps of
\* NextTrade that satisfy it are the steps of that action
SpecTradeFair ==
    /\ SpecTrade
    /\ WF_inflight(Settles("Promise.all"))
    /\ WF_inflight(Settles("refreshData"))
    /\ WF_inflight(Settles("saveTrade"))

---------------------------------------------------------------------------
(* App: properties                                                         *)

\* the sum of position_count over the entries of a grouped view
PositionsCounted(view) == SumSeq([k \in 1..Len(view) |-> view[k].position_count])

AdmittedRows == Without(aggData, {k \in 1..Len(aggData) : ~Admitted(aggData[k])})

\* C18: in every state the App reaches by loads and filter changes,
\* filteredData is aggData without the rows the filter rejects, in the same
\* order, and the ladder, the pie chart, the table's rows and the table's
\* spread aggregates are those of exactly these rows.
C18_ViewsShowAdmittedRows ==
    /\ filteredData = AdmittedRows
    /\ bucketData = aggregateByExpiryBucket(AdmittedRows, now)
    /\ assetData = aggregateByAssetType(AdmittedRows)
    /\ aggTable.props.data = AdmittedRows
    /\ aggTable.spreadAggregates = spreadAggregates(AdmittedRows)

\* two rows are loaded and the family filter rejects the second: the pie
\* shows one slice, the table one leg
C18_Witness ==
    /\ ~loading
    /\ aggData = <<LegA, Single>>
    /\ selectedFamily = S_Tail
    /\ filteredData = <<LegA>>
    /\ Len(assetData) = 1
    /\ DOMAIN aggTable.spreadAggregates = {S_S1}

\* the figure App's state asks for
CurrentFigure(value) ==
    IF showBasisPoints /\ portfolioTotalMV > 0
    THEN <<"formatBasisPoints", value, portfolioTotalMV>>
    ELSE <<"formatCurrency", value>>

TableLegs ==
    {k \in 1..Len(aggTable.props.data) :
        /\ aggTable.props.data[k].is_spread_leg = Some(TRUE)
        /\ aggTable.props.data[k].spread_id \notin {NullStr, <<>>}}

\* C19: for every leg among the table's rows the column definitions hold an
\* aggregate under its spread_id, that aggregate is the one computed from
\* the table's current rows, and the Net MV and MTD PnL cells show two
\* figures: the leg's own value, then the package total, both in the format
\* App's state asks for.
C19_LegCellsShowCurrentAggregate ==
    \A k \in TableLegs :
        LET row     == aggTable.props.data[k]
            id      == row.spread_id
            current == spreadAggregates(aggTable.props.data)
            held    == aggTable.columns.spreadAggregates
        IN  /\ id \in DOMAIN held
            /\ held[id] = current[id]
            /\ netMvCell(aggTable.columns, row) =
                  <<CurrentFigure(row.mv_ssc_usd), CurrentFigure(Some(current[id].mv_total))>>
            /\ mtdPnlCell(aggTable.columns, row) =
                  <<CurrentFigure(row.pnl_mtd_usd),
                    CurrentFigure(Some(current[id].pnl_mtd_total))>>

\* after a refresh took the second leg of S1 away and the bps toggle was
\* set, the remaining leg shows its own 100 and the package's 100, where the
\* load before had a package of 60
C19_Witness ==
    /\ ~loading
    /\ showBasisPoints
    /\ aggTable.sorting = 1
    /\ aggTable.props.data = <<LegA, Single>>
    /\ netMvCell(aggTable.columns, LegA) =
          <<<<"formatBasisPoints", Some(100), 1000000>>,
            <<"formatBasisPoints", Some(100), 1000000>>>>

FilterChanges ==
    \/ selectedFamily' # selectedFamily
    \/ selectedStrategy' # selectedStrategy
    \/ searchQuery' # searchQuery

HeaderChanges ==
    \/ rollup' # rollup
    \/ aggData' # aggData
    \/ portfolioTotalMV' # portfolioTotalMV

\* a loadData waiting at its Promise.all ends without an error
LoadSucceeds ==
    /\ \E task \in Awaiting("Promise.all") : inflight' = Resume(task)
    /\ ~loading'
    /\ error' = error

\* C20: a step that changes the family filter, the strategy filter or the
\* search query leaves rollup, aggData and portfolioTotalMV as they are, and
\* a step that changes one of the three is the successful end of a load.
C20_FiltersLeaveHeaderAlone ==
    [][/\ FilterChanges => ~HeaderChanges
       /\ HeaderChanges => LoadSucceeds]_vars

\* filters are set over loaded data, and the header still counts both rows
C20_Witness ==
    /\ ~loading
    /\ rollup # None
    /\ rollup[1].totals.row_count = 2
    /\ portfolioTotalMV = 1000000
    /\ selectedStrategy = S_Macro
    /\ searchQuery = <<"i","d","9">>
    /\ Len(filteredData) = 1

---------------------------------------------------------------------------
(* Trade form and loads: properties                                        *)

\* onSave is called in this step: one more handleSaveTrade waits for its
\* request
OnSaveInvoked ==
    CopiesIn(handleSaveTradeTask, inflight') > CopiesIn(handleSaveTradeTask, inflight)

\* the form is submitted in this step with an empty pretty_name: the form is
\* idle before and open after, with the same formData and another state
EmptySubmitted ==
    /\ showTradeForm
    /\ showTradeForm'
    /\ ~tradeForm.saving
    /\ tradeForm.formData.pretty_name = <<>>
    /\ tradeForm'.formData = tradeForm.formData
    /\ tradeForm' # tradeForm

\* C21: a submit of the form with an empty pretty_name sets the form's error
\* to 'Pretty Name is required', leaves saving false and the form open, and
\* calls no onSave; onSave is called only in a step from a form whose
\* pretty_name is not empty; while the error is shown, saving is false.
C21_EmptyNameIsNotSaved ==
    /\ [](showTradeForm /\ tradeForm.error = Some(S_Required) => ~tradeForm.saving)
    /\ [][/\ EmptySubmitted =>
               /\ tradeForm'.error = Some(S_Required)
               /\ ~tradeForm'.saving
               /\ inflight' = inflight
          /\ OnSaveInvoked =>
               /\ showTradeForm
               /\ tradeForm.formData.pretty_name # <<>>
               /\ tradeForm'.saving]_vars

\* the form open after a submit with an empty pretty_name, no save under way
C21_Witness ==
    /\ showTradeForm
    /\ tradeForm.formData.pretty_name = <<>>
    /\ tradeForm.error = Some(S_Required)
    /\ ~tradeForm.saving
    /\ Awaiting("saveTrade") = {}
    /\ ~loading

\* the two responses of the loadData that ends in this step: the one it
\* held and the one that arrives, or none if no loadData ends
ResponsesOfEndedLoad ==
    {<<task.rollupData[1], fetchAggTable(server)>> :
        task \in {t \in Awaiting("Promise.all") :
                     t.rollupData # <<>> /\ inflight' = Resume(t)}}
    \cup
    {<<fetchRollup(server), task.tableData[1]>> :
        task \in {t \in Awaiting("Promise.all") :
                     t.tableData # <<>> /\ inflight' = Resume(t)}}

\* a loadData ends in this step with a new error message
LoadFails ==
    /\ \E task \in Awaiting("Promise.all") : inflight' = Resume(task)
    /\ error' # error

\* C22: a step that changes rollup, aggData or portfolioTotalMV is the end
\* of one loadData and sets all three from the two responses of that one
\* call; a step in which a loadData fails leaves all three as they were and
\* sets error to a message.
C22_LoadWritesAllOrNothing ==
    [][/\ HeaderChanges =>
            \E responses \in ResponsesOfEndedLoad :
                /\ rollup' = Some(responses[1].header)
                /\ portfolioTotalMV' = responses[1].portfolio_total_mv
                /\ aggData' = responses[2]
       /\ LoadFails => ~HeaderChanges /\ error' # None]_vars

\* a load has failed after the backend changed: the error is shown, header
\* and rows are still those of the load before
C22_Witness ==
    /\ ~loading
    /\ error # None
    /\ rollup # None
    /\ aggData = <<LegA, LegB>>
    /\ rollup[1].totals.total_mv_ssc_usd = 60
    /\ portfolioTotalMV = 1000000
    /\ server.rows = <<LegC, LegB>>
    /\ inflight = EmptyBag

\* a loadData ends in this step
LoadEnds ==
    \E task \in Awaiting("Promise.all") : inflight' = Resume(task)

\* C23: whenever loading is true it is false again later, given that each
\* request settles; the step in which a loadData ends leaves loading false,
\* and loading is true only while a handler waits for a request.
SettlesIsSettle ==
    [][/\ Settles("Promise.all") <=> SettleFetch
       /\ Settles("refreshData") <=> SettleRefreshData
       /\ Settles("saveTrade") <=> SettleSaveTrade]_vars

C23_LoadingEnds ==
    /\ loading ~> ~loading
    /\ [](loading => inflight # EmptyBag)
    /\ [][LoadEnds => ~loading']_vars

\* the reload after a saved trade has ended: the form is closed, the table
\* shows the saved book, nothing is in flight and loading is false
C23_Witness ==
    /\ ~loading
    /\ inflight = EmptyBag
    /\ ~showTradeForm
    /\ error = None
    /\ server.rows = <<LegC, LegB>>
    /\ aggData = <<LegC, LegB>>

\* a handler reaches the await of `task` in this step
Starts(task) == CopiesIn(task, inflight') > CopiesIn(task, inflight)

\* a handler waiting at the await of `task` is resumed in this step
Ends(task) == CopiesIn(task, inflight') < CopiesIn(task, inflight)

\* C24: handleRefresh does not call loadData before its request settled;
\* when the request has succeeded loadData starts and nothing else is
\* written, when it has failed loadData does not start, error holds a
\* message and loading is false; either way rollup, aggData and
\* portfolioTotalMV are as before.  loadData starts only in a step that
\* resumes handleRefresh or handleSaveTrade.
C24_RefreshThenLoad ==
    [][/\ Starts(handleRefreshTask) => ~Starts(loadDataTask) /\ loading'
       /\ Ends(handleRefreshTask) =>
            /\ ~HeaderChanges
            /\ \/ Starts(loadDataTask) /\ loading' /\ error' = None
               \/ ~Starts(loadDataTask) /\ ~loading' /\ error' # None
       /\ Starts(loadDataTask) =>
            Ends(handleRefreshTask) \/ Ends(handleSaveTradeTask)]_vars

\* Refresh was pressed with data on the page and its request has not settled:
\* no loadData is in flight, the page still shows what it showed
C24_Witness ==
    /\ Awaiting("refreshData") # {}
    /\ Awaiting("Promise.all") = {}
    /\ loading
    /\ rollup # None
    /\ aggData = server.rows
    /\ aggData # <<>>

\* C25: the step that resumes handleSaveTrade either closes the form, clears
\* editingTrade and starts loadData (the save succeeded), or starts no load
\* and leaves the form open with an error and saving false, showTradeForm
\* and editingTrade as they were (it failed); rollup and aggData are not
\* written by that step.  The step that calls saveTrade starts no load.
C25_SaveThenClose ==
    [][/\ Starts(handleSaveTradeTask) => ~Starts(loadDataTask) /\ showTradeForm
       /\ Ends(handleSaveTradeTask) =>
            /\ showTradeForm
            /\ tradeForm.saving
            /\ UNCHANGED <<rollup, aggData>>
            /\ \/ /\ Starts(loadDataTask)
                  /\ ~showTradeForm'
                  /\ editingTrade' = None
               \/ /\ ~Starts(loadDataTask)
                  /\ showTradeForm'
                  /\ tradeForm'.error # None
                  /\ ~tradeForm'.saving
                  /\ tradeForm'.formData = tradeForm.formData
                  /\ UNCHANGED <<editingTrade, loading, error>>]_vars

\* a save of an edited row has failed: the form is open on that row with the
\* message, saving is false, nothing is in flight
C25_Witness ==
    /\ showTradeForm
    /\ editingTrade # None
    /\ tradeForm.error = Some("Network Error")
    /\ ~tradeForm.saving
    /\ tradeForm.formData.pretty_name # <<>>
    /\ inflight = EmptyBag
    /\ ~loading

\* one of the three filters is not the empty string
SomeFilterSet ==
    \/ selectedFamily # <<>>
    \/ selectedStrategy # <<>>
    \/ searchQuery # <<>>

\* the step writes more than one of the three filters: of the Toolbar's
\* controls only Clear Filters does
SeveralFiltersChange ==
    \/ selectedFamily' # selectedFamily /\ selectedStrategy' # selectedStrategy
    \/ selectedFamily' # selectedFamily /\ searchQuery' # searchQuery
    \/ selectedStrategy' # selectedStrategy /\ searchQuery' # searchQuery

\* C26: the Clear Filters button is rendered exactly while one of the three
\* filters is not empty; the step it takes leaves all three empty at once,
\* and with all three empty filteredData is aggData.
C26_ClearFiltersResetsAll ==
    /\ [](clearFiltersShown <=> SomeFilterSet)
    /\ [](~SomeFilterSet => filteredData = aggData)
    /\ [][SeveralFiltersChange => /\ clearFiltersShown
                                  /\ ~SomeFilterSet'
                                  /\ filteredData' = aggData']_vars

\* the three filters are all set and hide a row, the page is not loading:
\* Clear Filters is rendered and enabled
C26_Witness ==
    /\ selectedFamily # <<>>
    /\ selectedStrategy # <<>>
    /\ searchQuery # <<>>
    /\ clearFiltersShown
    /\ ~loading
    /\ filteredData # aggData

\* the figure is in the format App's state asks for: formatBasisPoints
\* against portfolioTotalMV when showBasisPoints is on and portfolioTotalMV
\* is positive, formatCurrency otherwise
InCurrentFormat(shown) ==
    IF showBasisPoints /\ portfolioTotalMV > 0
    THEN shown[1] = "formatBasisPoints" /\ shown[3] = portfolioTotalMV
    ELSE shown[1] = "formatCurrency"

\* the rows of the table whose cells render: every row but a leg whose
\* package the column definitions do not hold
RenderedRows ==
    {k \in 1..Len(aggTable.props.data) :
        k \in TableLegs =>
            aggTable.props.data[k].spread_id \in DOMAIN aggTable.columns.spreadAggregates}

\* the figures of the Net MV and MTD PnL cells of the table's rows: a row's
\* own value and, for a leg, its package total
TableFigures ==
    UNION {LET cells == netMvCell(aggTable.columns, aggTable.props.data[k])
                        \o mtdPnlCell(aggTable.columns, aggTable.props.data[k])
           IN  {cells[i] : i \in 1..Len(cells)} :
           k \in RenderedRows}

\* the figures of the header that follow the bps button: Total MV, MTD PnL
\* and one per family
HeaderFigures ==
    IF rollupView.shown = "summary"
    THEN {rollupView.cards[1], rollupView.cards[4]}
         \cup {rollupView.families[k] : k \in 1..Len(rollupView.families)}
    ELSE {}

\* C27: every market value and MTD PnL figure of the header and of the
\* table is formatted by formatBasisPoints exactly when showBasisPoints is
\* on and portfolioTotalMV is positive, and by formatCurrency otherwise, so
\* formatBasisPoints is called only with a positive total.
C27_BpsOnlyWithPositiveTotal ==
    /\ \A shown \in HeaderFigures \cup TableFigures : InCurrentFormat(shown)
    /\ \A shown \in HeaderFigures \cup TableFigures :
          shown[1] = "formatBasisPoints" => shown[3] > 0

\* the bps view is on over a book whose total is negative: header and table
\* are rendered and show dollar values, package totals included
C27_Witness ==
    /\ showBasisPoints
    /\ portfolioTotalMV < 0
    /\ ~loading
    /\ rollupView.shown = "summary"
    /\ rollupView.cards[1][1] = "formatCurrency"
    /\ TableLegs # {}
    /\ \A shown \in TableFigures : shown[1] = "formatCurrency"

\* the loadData calls in flight, each suspended at its Promise.all
LoadsInFlight ==
    BagCardinality([task \in Awaiting("Promise.all") |-> CopiesIn(task, inflight)])

\* C28: at most one data load is in flight at any time: no two loadData
\* calls wait for their responses at once.
C28_OneLoadInFlight ==
    LoadsInFlight <= 1

\* C29: the selected family is the empty string or one of the options of the
\* family select, and the selected strategy likewise.
C29_SelectedIsOffered ==
    /\ selectedFamily \in familyOptions
    /\ selectedStrategy \in strategyOptions

=============================================================================
